---- MODULE Spec2Model ----
(***************************************************************************)
(* Model of the gremlite graph store (src/gremlite/src): six LMDB          *)
(* sub-databases holding byte keys and byte values, the put/get/scan       *)
(* operations of Graph, the ULID generator each Graph handle owns, and     *)
(* the write/read transactions of the shared environment.                  *)
(*                                                                         *)
(* Scaling.  A ULID is 128 bits (48 of time, 80 of randomness); here it    *)
(* is UlidBits wide with RandBits of randomness.  The Id key layout is     *)
(* the kind tag followed by the big-endian ULID bytes (16 in the code,     *)
(* one here); the serde layout of an Id inside a postcard tuple is the     *)
(* kind tag followed by the length-prefixed Crockford base-32 string       *)
(* (26 characters in the code, UlidStrLen here).                           *)
(***************************************************************************)
EXTENDS Integers, Sequences, FiniteSets, TLC

\* ---------------------------------------------------------------- bounds
NumHandles == 2      \* Graph handles opened on the one path
NumThreads == 3      \* threads of the process
MaxWriters == 2      \* write-transaction objects the model can hold
MaxReaders == 1      \* read transactions open at once
MaxClock   == 2      \* last millisecond the system clock reaches
MaxAlloc   == 3      \* ids generated in one run
MaxOps     == 3      \* put/clear calls in one run
MaxUlidBytes == 2    \* bytes of the widest ULID the Id codec is run on

\* ---------------------------------------------- scaled program constants
UlidBits   == 8
RandBits   == 2
UlidStrLen == 2
WriteTxnSecs == 30   \* the seconds write_txn waits for the write lock

Pow2(n) == IF n = 0 THEN 1 ELSE IF n = 1 THEN 2 ELSE IF n = 2 THEN 4
           ELSE IF n = 3 THEN 8 ELSE IF n = 4 THEN 16 ELSE IF n = 5 THEN 32
           ELSE IF n = 6 THEN 64 ELSE IF n = 7 THEN 128 ELSE 256

UlidNil == 0
UlidMax == Pow2(UlidBits) - 1
RandCard == Pow2(RandBits)

Handles == 1..NumHandles
Threads == 1..NumThreads
None == [none |-> TRUE]

\* ------------------------------------------------------------ graph types
\* enum Type: postcard writes the variant index
TypeTag(t) == CASE t = "Vertex" -> 0 [] t = "Edge" -> 1 [] t = "Parameter" -> 2
TagType(b) == CASE b = 0 -> "Vertex" [] b = 1 -> "Edge" [] b = 2 -> "Parameter"
                [] OTHER -> "Bad"

Id(t, u) == [kind |-> t, ulid |-> u]
IdNil(t) == Id(t, UlidNil)
IdMax(t) == Id(t, UlidMax)

\* labels are Strings: "t" and "t3", the first a proper prefix of the second
Labels == { <<116>>, <<116, 51>> }
\* parameter keys are Strings: "k"
PKeys == { <<107>> }
PNone == [tag |-> "None"]
PBool(b) == [tag |-> "Bool", val |-> b]
PValues == { PNone, PBool(TRUE) }
PutPValues == { PNone }

\* HashMap<P, PValue>: a function on a finite set of keys
EmptyMap == [k \in {} |-> PNone]
ParamMaps == { EmptyMap } \cup UNION { [ {k} -> PutPValues ] : k \in PKeys }

VertexNew(label) == [id |-> None, label |-> label, parameters |-> EmptyMap]

\* ------------------------------------------------------------ byte strings
RECURSIVE BytesLess(_, _)
\* memcmp order of LMDB keys and of Rust slices: first differing byte, then length
BytesLess(a, b) ==
  IF b = << >> THEN FALSE
  ELSE IF a = << >> THEN TRUE
  ELSE IF Head(a) # Head(b) THEN Head(a) < Head(b)
  ELSE BytesLess(Tail(a), Tail(b))

BytesLeq(a, b) == a = b \/ BytesLess(a, b)

Slice(s, from, to) == IF from > to THEN << >> ELSE SubSeq(s, from, to)

Min(a, b) == IF a < b THEN a ELSE b

RECURSIVE SortKeys(_)
\* the keys of a set in memcmp order, as a B-tree cursor walks them
SortKeys(S) ==
  IF S = {} THEN << >>
  ELSE LET m == CHOOSE x \in S : \A y \in S : BytesLeq(x, y)
       IN  <<m>> \o SortKeys(S \ {m})

\* ------------------------------------------------------------------ codec
Fail == [ok |-> FALSE]
Parsed(v, rest) == [ok |-> TRUE, val |-> v, rest |-> rest]

\* Crockford base 32, the alphabet of Ulid::to_string, as ASCII codes
Crockford == << 48, 49, 50, 51, 52, 53, 54, 55, 56, 57,
                65, 66, 67, 68, 69, 70, 71, 72, 74, 75, 77, 78,
                80, 81, 82, 83, 84, 86, 87, 88, 89, 90 >>

RECURSIVE UlidToString(_, _)
\* the n low base-32 digits of u, most significant first
UlidToString(u, n) ==
  IF n = 0 THEN << >>
  ELSE UlidToString(u \div 32, n - 1) \o << Crockford[(u % 32) + 1] >>

\* the value of a character of the alphabet, -1 for any other character
CrockfordDigit(c) ==
  IF c \in 48..57 THEN c - 48
  ELSE IF c \in 65..72 THEN c - 55
  ELSE IF c \in 74..75 THEN c - 56
  ELSE IF c \in 77..78 THEN c - 57
  ELSE IF c \in 80..84 THEN c - 58
  ELSE IF c \in 86..90 THEN c - 59
  ELSE -1

RECURSIVE UlidFromString(_)
\* -1 when a character is outside the alphabet
UlidFromString(s) ==
  IF s = << >> THEN 0
  ELSE LET d  == CrockfordDigit(s[Len(s)])
           hi == UlidFromString(SubSeq(s, 1, Len(s) - 1))
       IN  IF hi < 0 \/ d < 0 THEN -1 ELSE hi * 32 + d

\* postcard: a str is its length, then its bytes
EncStr(s) == << Len(s) >> \o s
ParseStr(b) ==
  IF b = << >> THEN Fail
  ELSE IF Len(b) < 1 + b[1] THEN Fail
  ELSE Parsed(Slice(b, 2, 1 + b[1]), Slice(b, 2 + b[1], Len(b)))

\* serde layout of Id(Type, Ulid): the variant index of Type, then the ULID
\* as its canonical string
SerdeId(id) == << TypeTag(id.kind) >> \o EncStr(UlidToString(id.ulid, UlidStrLen))
ParseSerdeId(b) ==
  IF b = << >> THEN Fail
  ELSE LET s == ParseStr(Tail(b))
           u == UlidFromString(s.val)
       IN  IF TagType(b[1]) = "Bad" \/ ~s.ok THEN Fail
           ELSE IF Len(s.val) # UlidStrLen \/ u < 0 \/ u > UlidMax THEN Fail
           ELSE Parsed(Id(TagType(b[1]), u), s.rest)

\* BytesEncode for Id: the kind tag, then the ULID big-endian
IdLen == 1 + (UlidBits \div 8)
RECURSIVE LittleEndian(_, _)
\* a faulty variant: to_le_bytes
LittleEndian(u, n) ==
  IF n = 0 THEN << >> ELSE << u % 256 >> \o LittleEndian(u \div 256, n - 1)

RECURSIVE BigEndian(_, _)
BigEndian(u, n) ==
  IF n = 0 THEN << >> ELSE BigEndian(u \div 256, n - 1) \o << u % 256 >>
RECURSIVE FromBigEndian(_)
FromBigEndian(b) ==
  IF b = << >> THEN 0
  ELSE FromBigEndian(SubSeq(b, 1, Len(b) - 1)) * 256 + b[Len(b)]

\* bytes_encode and bytes_decode of Id with a ULID of n bytes (16 in the
\* code): the postcard tuple of the kind and the array ulid.0.to_be_bytes()
IdKeyEncode(id, n) == << TypeTag(id.kind) >> \o BigEndian(id.ulid, n)
IdKeyDecode(b, n) ==
  IF Len(b) # n + 1 THEN None
  ELSE Id(TagType(b[1]), FromBigEndian(Tail(b)))

IdBytesEncode(id) == IdKeyEncode(id, IdLen - 1)
IdBytesDecode(b) == IdKeyDecode(b, IdLen - 1)

\* LabelId(label, id), IdParam(id, key), ParamId(key, id): postcard tuples
LabelIdEncode(label, id) == EncStr(label) \o SerdeId(id)
\* a faulty variant: the binding is keyed by the parameter alone
IdParamEncodeKeyOnly(id, k) == EncStr(k)
IdParamEncode(id, k) == SerdeId(id) \o EncStr(k)
ParamIdEncode(k, id) == EncStr(k) \o SerdeId(id)

\* BytesDecode for IdParam and ParamId: None when the bytes do not parse
IdParamDecode(b) ==
  LET i == ParseSerdeId(b) IN
  IF ~i.ok THEN None ELSE
  LET k == ParseStr(i.rest) IN
  IF ~k.ok THEN None ELSE [id |-> i.val, key |-> k.val]
ParamIdDecode(b) ==
  LET k == ParseStr(b) IN
  IF ~k.ok THEN None ELSE
  LET i == ParseSerdeId(k.rest) IN
  IF ~i.ok THEN None ELSE [id |-> i.val, key |-> k.val]

\* PValue: the variant index, then the payload
EncPValue(pv) ==
  CASE pv.tag = "None" -> << 0 >>
    [] pv.tag = "Bool" -> << 14, IF pv.val THEN 1 ELSE 0 >>
ParsePValue(b) ==
  IF b = << >> THEN Fail
  ELSE IF b[1] = 0 THEN Parsed(PNone, Tail(b))
  ELSE IF b[1] = 14 /\ Len(b) >= 2 /\ b[2] \in {0, 1}
       THEN Parsed(PBool(b[2] = 1), Slice(b, 3, Len(b)))
  ELSE Fail
PValueDecode(b) == LET p == ParsePValue(b) IN IF p.ok THEN p.val ELSE None

RECURSIVE EncEntries(_, _)
EncEntries(m, keys) ==
  IF keys = << >> THEN << >>
  ELSE EncStr(Head(keys)) \o EncPValue(m[Head(keys)]) \o EncEntries(m, Tail(keys))
\* HashMap: the number of entries, then each key and value
EncParams(m) == << Cardinality(DOMAIN m) >> \o EncEntries(m, SortKeys(DOMAIN m))

RECURSIVE ParseEntries(_, _, _)
ParseEntries(b, n, acc) ==
  IF n = 0 THEN Parsed(acc, b)
  ELSE LET k == ParseStr(b)
       IN  IF ~k.ok THEN Fail
           ELSE LET v == ParsePValue(k.rest)
                IN  IF ~v.ok THEN Fail
                    ELSE ParseEntries(v.rest, n - 1,
                           [x \in DOMAIN acc \cup {k.val} |->
                              IF x = k.val THEN v.val ELSE acc[x]])
ParseParams(b) == IF b = << >> THEN Fail ELSE ParseEntries(Tail(b), b[1], EmptyMap)

EncOptId(o) == IF o = None THEN << 0 >> ELSE << 1 >> \o SerdeId(o)
ParseOptId(b) ==
  IF b = << >> THEN Fail
  ELSE IF b[1] = 0 THEN Parsed(None, Tail(b))
  ELSE IF b[1] = 1 THEN ParseSerdeId(Tail(b))
  ELSE Fail

\* value layout of a Vertex: id, label, parameters
VertexEncode(v) == EncOptId(v.id) \o EncStr(v.label) \o EncParams(v.parameters)
VertexDecode(b) ==
  LET i == ParseOptId(b) IN
  IF ~i.ok THEN None ELSE
  LET l == ParseStr(i.rest) IN
  IF ~l.ok THEN None ELSE
  LET p == ParseParams(l.rest) IN
  IF ~p.ok THEN None
  ELSE [id |-> i.val, label |-> l.val, parameters |-> p.val]

\* value layout of an Edge: id, to, from, label, parameters
EdgeEncode(e) ==
  EncOptId(e.id) \o SerdeId(e.to) \o SerdeId(e.from) \o EncStr(e.label)
    \o EncParams(e.parameters)
EdgeDecode(b) ==
  LET i == ParseOptId(b) IN
  IF ~i.ok THEN None ELSE
  LET t == ParseSerdeId(i.rest) IN
  IF ~t.ok THEN None ELSE
  LET f == ParseSerdeId(t.rest) IN
  IF ~f.ok THEN None ELSE
  LET l == ParseStr(f.rest) IN
  IF ~l.ok THEN None ELSE
  LET p == ParseParams(l.rest) IN
  IF ~p.ok THEN None
  ELSE [id |-> i.val, to |-> t.val, from |-> f.val, label |-> l.val,
        parameters |-> p.val]

\* a faulty variant: refused only when both endpoints lack an id
EdgeNewBothMissing(to, from, label) ==
  IF to.id = None /\ from.id = None THEN [err |-> "VertexInvalid"]
  ELSE [id |-> None, to |-> to.id, from |-> from.id, label |-> label,
        parameters |-> EmptyMap]

\* Edge::new: both endpoints must carry an id
EdgeNew(to, from, label) ==
  IF to.id = None \/ from.id = None THEN [err |-> "VertexInvalid"]
  ELSE [id |-> None, to |-> to.id, from |-> from.id, label |-> label,
        parameters |-> EmptyMap]

\* ---------------------------------------------------------- LMDB databases
\* a sub-database: a function from key bytes to value bytes
EmptyDb == [k \in {} |-> << >>]
Nothing == [some |-> FALSE]
Some(x) == [some |-> TRUE, val |-> x]
DbPut(d, k, v) == [x \in DOMAIN d \cup {k} |-> IF x = k THEN v ELSE d[x]]
DbDelete(d, k) == [x \in DOMAIN d \ {k} |-> d[x]]
DbGet(d, k) == IF k \in DOMAIN d THEN Some(d[k]) ELSE Nothing
DbLen(d) == Cardinality(DOMAIN d)

RECURSIVE Entries(_, _)
Entries(d, keys) ==
  IF keys = << >> THEN << >>
  ELSE << <<Head(keys), d[Head(keys)]>> >> \o Entries(d, Tail(keys))
\* Database::iter: every entry, in key order
DbIter(d) == Entries(d, SortKeys(DOMAIN d))
\* a faulty variant: the scan runs from the lower bound to the end
DbRangeFrom(d, lo, hi, inclusive) ==
  Entries(d, SortKeys({ k \in DOMAIN d : BytesLeq(lo, k) }))

\* Database::range over lo..=hi (inclusive) or lo..hi: the entries whose key
\* bytes lie between the encoded bounds, in key order
DbRange(d, lo, hi, inclusive) ==
  Entries(d, SortKeys({ k \in DOMAIN d :
     /\ BytesLeq(lo, k)
     /\ IF inclusive THEN BytesLeq(k, hi) ELSE BytesLess(k, hi) }))

\* the six sub-databases Graph::new creates
EmptyStore ==
  [ vertex_db |-> EmptyDb, vertex_idx_db |-> EmptyDb,
    edge_db |-> EmptyDb, edge_idx_db |-> EmptyDb,
    parameters_db |-> EmptyDb, parameters_idx_db |-> EmptyDb ]

\* --------------------------------------------------------- id generation
UlidTimestamp(u) == u \div RandCard
\* a faulty variant: a fresh ULID is made of the random bits alone
GenerateRandomOnly(prev, ms, r) ==
  IF ms <= UlidTimestamp(prev)
  THEN IF prev % RandCard = RandCard - 1
       THEN [ok |-> FALSE]
       ELSE [ok |-> TRUE, ulid |-> prev + 1]
  ELSE [ok |-> TRUE, ulid |-> r]

\* ulid::Generator::generate at millisecond ms with random bits r
Generate(prev, ms, r) ==
  IF ms <= UlidTimestamp(prev)
  THEN IF prev % RandCard = RandCard - 1
       THEN [ok |-> FALSE]
       ELSE [ok |-> TRUE, ulid |-> prev + 1]
  ELSE [ok |-> TRUE, ulid |-> ms * RandCard + r]

\* ------------------------------------------------------------- operations
\* Database<Id, Vertex>::get and Database<Id, Edge>::get
VertexGet(st, id) ==
  LET g == DbGet(st.vertex_db, IdBytesEncode(id))
  IN  IF g.some THEN VertexDecode(g.val) ELSE None
EdgeGet(st, id) ==
  LET g == DbGet(st.edge_db, IdBytesEncode(id))
  IN  IF g.some THEN EdgeDecode(g.val) ELSE None

RECURSIVE PutParamsNoIdx(_, _, _, _)
\* a faulty variant: the binding is written without its index entry
PutParamsNoIdx(st, id, m, keys) ==
  IF keys = << >> THEN st
  ELSE PutParamsNoIdx([st EXCEPT !.parameters_db =
                          DbPut(@, IdParamEncode(id, Head(keys)), EncPValue(m[Head(keys)]))],
                      id, m, Tail(keys))

RECURSIVE PutParams(_, _, _, _)
\* the for_each over the parameters: upsert the binding and its index entry
PutParams(st, id, m, keys) ==
  IF keys = << >> THEN st
  ELSE LET k == Head(keys)
           s1 == [st EXCEPT
                    !.parameters_db =
                       DbPut(@, IdParamEncode(id, k), EncPValue(m[k])),
                    !.parameters_idx_db =
                       DbPut(@, ParamIdEncode(k, id), IdBytesEncode(id))]
       IN  PutParams(s1, id, m, Tail(keys))

\* a faulty variant: the old entry is left in place
DropVertexIdxSkipped(st, n) == st

\* a faulty variant: the entry is looked up under the label of the argument
DropVertexIdxByArgLabel(st, n) ==
  LET vertex == VertexGet(st, n.id)
  IN  IF vertex # None
      THEN [st EXCEPT !.vertex_idx_db = DbDelete(@, LabelIdEncode(n.label, n.id))]
      ELSE st

\* a faulty variant: every entry of the old label is deleted
DropVertexIdxWholeLabel(st, n) ==
  LET vertex == VertexGet(st, n.id)
  IN  IF vertex # None
      THEN [st EXCEPT !.vertex_idx_db =
              [key \in { x \in DOMAIN @ :
                           Slice(x, 1, Len(EncStr(vertex.label))) # EncStr(vertex.label) }
                 |-> @[key]]]
      ELSE st

\* the old label-index entry of a vertex that is re-put
DropVertexIdx(st, n) ==
  LET vertex == VertexGet(st, n.id)
  IN  IF vertex # None
      THEN [st EXCEPT !.vertex_idx_db =
              DbDelete(@, LabelIdEncode(vertex.label, vertex.id))]
      ELSE st

\* the writes of put_vertex for the vertex v, id in place, on the store s0:
\* the record, its label-index entry, its parameters
PutVertexRecord(s0, v) ==
  [store |-> PutParams([s0 EXCEPT
                          !.vertex_db = DbPut(@, IdBytesEncode(v.id), VertexEncode(v)),
                          !.vertex_idx_db =
                             DbPut(@, LabelIdEncode(v.label, v.id), IdBytesEncode(v.id))],
                       v.id, v.parameters, SortKeys(DOMAIN v.parameters)),
   ret |-> v]

\* the vertex put_vertex stores: n itself, or n with the fresh id
WithId(n, fresh) == IF n.id # None THEN n ELSE [n EXCEPT !.id = fresh]

\* a faulty variant: the old index entry is deleted after the new one is written
PutVertexDropLast(st, n, fresh) ==
  [store |-> IF n.id # None /\ VertexGet(st, n.id) # None
             THEN [PutVertexRecord(st, WithId(n, fresh)).store
                     EXCEPT !.vertex_idx_db =
                       DbDelete(@, LabelIdEncode(VertexGet(st, n.id).label, n.id))]
             ELSE PutVertexRecord(st, WithId(n, fresh)).store,
   ret |-> WithId(n, fresh)]

\* a faulty variant: the record is written as the caller passed it
PutVertexAsPassed(st, n, fresh) ==
  [store |-> [PutVertexRecord(IF n.id # None THEN DropVertexIdx(st, n) ELSE st,
                              WithId(n, fresh)).store
                EXCEPT !.vertex_db = DbPut(@, IdBytesEncode(WithId(n, fresh).id),
                                           VertexEncode(n))],
   ret |-> WithId(n, fresh)]

\* put_vertex on the view st of a write transaction; fresh is the id the
\* generator hands out when n has none
\* a variant that forgets the old bindings of a vertex that is re-put
DropBindings(st, id, keys) ==
  [st EXCEPT
     !.parameters_db = [key \in DOMAIN @ \ { IdParamEncode(id, k) : k \in keys } |-> @[key]],
     !.parameters_idx_db = [key \in DOMAIN @ \ { ParamIdEncode(k, id) : k \in keys } |-> @[key]]]
PutVertexCleaning(st, n, fresh) ==
  PutVertexRecord(IF n.id # None THEN DropBindings(DropVertexIdx(st, n), n.id, PKeys) ELSE st,
                  WithId(n, fresh))

PutVertex(st, n, fresh) ==
  PutVertexRecord(IF n.id # None THEN DropVertexIdx(st, n) ELSE st, WithId(n, fresh))

\* a faulty variant: the old entry is left in place
DropEdgeIdxSkipped(st, edge) == st

\* the old label-index entry of an edge that is re-put
DropEdgeIdx(st, edge) ==
  LET e == EdgeGet(st, edge.id)
  IN  IF e # None
      THEN [st EXCEPT !.edge_idx_db = DbDelete(@, LabelIdEncode(e.label, edge.id))]
      ELSE st

\* a faulty variant: the index entry is keyed by the label and the to id
PutEdgeRecordIdxByTo(s0, e) ==
  [store |-> PutParams([s0 EXCEPT
                          !.edge_db = DbPut(@, IdBytesEncode(e.id), EdgeEncode(e)),
                          !.edge_idx_db =
                             DbPut(@, LabelIdEncode(e.label, e.to), IdBytesEncode(e.id))],
                       e.id, e.parameters, SortKeys(DOMAIN e.parameters)),
   ret |-> e]

\* the writes of put_edge for the edge e, id in place, on the store s0
PutEdgeRecord(s0, e) ==
  [store |-> PutParams([s0 EXCEPT
                          !.edge_db = DbPut(@, IdBytesEncode(e.id), EdgeEncode(e)),
                          !.edge_idx_db =
                             DbPut(@, LabelIdEncode(e.label, e.id), IdBytesEncode(e.id))],
                       e.id, e.parameters, SortKeys(DOMAIN e.parameters)),
   ret |-> e]

\* a faulty variant: an edge whose endpoints are not stored is not written
PutEdgeChecked(st, edge, fresh) ==
  IF /\ IdBytesEncode(edge.to) \in DOMAIN st.vertex_db
     /\ IdBytesEncode(edge.from) \in DOMAIN st.vertex_db
  THEN PutEdgeRecord(IF edge.id # None THEN DropEdgeIdx(st, edge) ELSE st,
                     WithId(edge, fresh))
  ELSE [store |-> st, ret |-> WithId(edge, fresh)]

\* put_edge on the view st of a write transaction
PutEdge(st, edge, fresh) ==
  PutEdgeRecord(IF edge.id # None THEN DropEdgeIdx(st, edge) ELSE st, WithId(edge, fresh))

\* a faulty variant: the label indexes are left as they are
ClearPrimaryOnly(st) ==
  [st EXCEPT !.vertex_db = EmptyDb, !.edge_db = EmptyDb]

\* Graph::clear
Clear(st) ==
  [st EXCEPT !.vertex_db = EmptyDb, !.vertex_idx_db = EmptyDb,
             !.edge_db = EmptyDb, !.edge_idx_db = EmptyDb]

GetVertexById(st, id) == VertexGet(st, id)
GetEdgeById(st, id) == EdgeGet(st, id)

RECURSIVE VertexRangeCollect(_, _)
\* VertexRange::next until it returns None: each entry's value is decoded to
\* an id and looked up; a missing record ends the iteration
VertexRangeCollect(st, entries) ==
  IF entries = << >> THEN << >>
  ELSE LET id == IdBytesDecode(Head(entries)[2])
           v  == IF id = None THEN None ELSE GetVertexById(st, id)
       IN  IF v = None THEN << >>
           ELSE <<v>> \o VertexRangeCollect(st, Tail(entries))

GetVerticesByLabel(st, label) ==
  VertexRangeCollect(st,
    DbRange(st.vertex_idx_db, LabelIdEncode(label, IdNil("Vertex")),
            LabelIdEncode(label, IdMax("Vertex")), TRUE))

GetVertexByLabel(st, label) ==
  LET r == GetVerticesByLabel(st, label)
  IN  IF r = << >> THEN None ELSE Head(r)

RECURSIVE EdgeRangeCollect(_, _)
EdgeRangeCollect(st, entries) ==
  IF entries = << >> THEN << >>
  ELSE LET id == IdBytesDecode(Head(entries)[2])
           e  == IF id = None THEN None ELSE GetEdgeById(st, id)
       IN  IF e = None THEN << >>
           ELSE <<e>> \o EdgeRangeCollect(st, Tail(entries))

\* a faulty variant: the bounds carry the kind of a vertex id
GetEdgesByLabelVertexBounds(st, label) ==
  EdgeRangeCollect(st,
    DbRange(st.edge_idx_db, LabelIdEncode(label, IdNil("Vertex")),
            LabelIdEncode(label, IdMax("Vertex")), FALSE))

\* get_edges_by_label: the half-open range (label, nil) .. (label, max)
GetEdgesByLabel(st, label) ==
  EdgeRangeCollect(st,
    DbRange(st.edge_idx_db, LabelIdEncode(label, IdNil("Edge")),
            LabelIdEncode(label, IdMax("Edge")), FALSE))

GetEdgeByLabel(st, label) ==
  LET r == GetEdgesByLabel(st, label)
  IN  IF r = << >> THEN None ELSE Head(r)

\* vertex_count and edge_count: the assert_eq, then the primary length
VertexCount(st) ==
  IF DbLen(st.vertex_db) # DbLen(st.vertex_idx_db) THEN [panic |-> TRUE]
  ELSE [panic |-> FALSE, n |-> DbLen(st.vertex_db)]
EdgeCount(st) ==
  IF DbLen(st.edge_db) # DbLen(st.edge_idx_db) THEN [panic |-> TRUE]
  ELSE [panic |-> FALSE, n |-> DbLen(st.edge_db)]

\* PValue::Vertex and PValue::Edge
PVertex(v) == [tag |-> "Vertex", val |-> v]
PEdge(e) == [tag |-> "Edge", val |-> e]

RECURSIVE VertexIterCollect(_)
\* VertexIter::next until it returns None: the next entry of vertices:v1 in key
\* order, key and value decoded; an entry that does not decode ends the scan
VertexIterCollect(entries) ==
  IF entries = << >> THEN << >>
  ELSE IF IdBytesDecode(Head(entries)[1]) = None
            \/ VertexDecode(Head(entries)[2]) = None THEN << >>
  ELSE << PVertex(VertexDecode(Head(entries)[2])) >> \o VertexIterCollect(Tail(entries))

\* Graph::vertices
Vertices(st) == VertexIterCollect(DbIter(st.vertex_db))

RECURSIVE EdgeIterCollect(_)
\* EdgeIter::next until it returns None
EdgeIterCollect(entries) ==
  IF entries = << >> THEN << >>
  ELSE IF IdBytesDecode(Head(entries)[1]) = None
            \/ EdgeDecode(Head(entries)[2]) = None THEN << >>
  ELSE << PEdge(EdgeDecode(Head(entries)[2])) >> \o EdgeIterCollect(Tail(entries))

\* Graph::edges
Edges(st) == EdgeIterCollect(DbIter(st.edge_db))

RECURSIVE GetVerticesByIdsOnce(_, _)
\* a faulty variant: an id asked for again is passed over
GetVerticesByIdsOnce(st, ids) ==
  IF ids = << >> THEN << >>
  ELSE LET rest == GetVerticesByIdsOnce(st, SubSeq(ids, 1, Len(ids) - 1))
           id   == ids[Len(ids)]
       IN  IF VertexGet(st, id) = None
              \/ \E i \in 1..(Len(ids) - 1) : ids[i] = id THEN rest
           ELSE Append(rest, PVertex(VertexGet(st, id)))

RECURSIVE GetVerticesByIds(_, _)
\* Graph::get_vertices_by_ids: each id is looked up in vertices:v1 in the
\* order given; a failed get (.ok()) and a missing record (None) fall out in
\* the two flatten
GetVerticesByIds(st, ids) ==
  IF ids = << >> THEN << >>
  ELSE (IF VertexGet(st, Head(ids)) = None THEN << >>
        ELSE << PVertex(VertexGet(st, Head(ids))) >>)
       \o GetVerticesByIds(st, Tail(ids))

RECURSIVE GetEdgesByIds(_, _)
\* Graph::get_edges_by_ids: the same over edges:v1
GetEdgesByIds(st, ids) ==
  IF ids = << >> THEN << >>
  ELSE (IF EdgeGet(st, Head(ids)) = None THEN << >>
        ELSE << PEdge(EdgeGet(st, Head(ids))) >>)
       \o GetEdgesByIds(st, Tail(ids))

\* ------------------------------------------------------ gremlin executor
\* Instruction::From(id) and Instruction::To(id)
FromTag(id) == [tag |-> "From", id |-> id]
ToTag(id) == [tag |-> "To", id |-> id]

RECURSIVE LastTagged(_, _, _)
\* the loop of pop_to_from: the id of the last step with the tag, acc when
\* there is none
LastTagged(steps, tag, acc) ==
  IF steps = << >> THEN acc
  ELSE LastTagged(Tail(steps), tag, IF Head(steps).tag = tag THEN Head(steps).id ELSE acc)

\* a faulty variant: the From step is looked for first
PopToFromFromFirst(steps) ==
  IF LastTagged(steps, "From", None) = None THEN [ok |-> FALSE, err |-> "Missing from"]
  ELSE IF LastTagged(steps, "To", None) = None THEN [ok |-> FALSE, err |-> "Missing to"]
  ELSE [ok |-> TRUE, to |-> LastTagged(steps, "To", None),
        from |-> LastTagged(steps, "From", None)]

\* WriteExecutor::pop_to_from: the ids of the To and From steps, as they are
PopToFrom(steps) ==
  IF LastTagged(steps, "To", None) = None THEN [ok |-> FALSE, err |-> "Missing to"]
  ELSE IF LastTagged(steps, "From", None) = None THEN [ok |-> FALSE, err |-> "Missing from"]
  ELSE [ok |-> TRUE, to |-> LastTagged(steps, "To", None),
        from |-> LastTagged(steps, "From", None)]

\* the edge AddE hands to put_edge: the two ids go in as the tags hold them
AddEEdge(tf, label) ==
  [id |-> None, to |-> tf.to, from |-> tf.from, label |-> label, parameters |-> EmptyMap]

\* ---------------------------------------------------- traversal machine
\* Bytecode::default
BytecodeDefault == [sources |-> << >>, steps |-> << >>]

\* a faulty variant: the step is not kept
AddStepDropped(code, i) == code

\* Bytecode::add_step: push_back on the steps
AddStep(code, i) == [code EXCEPT !.steps = Append(@, i)]

\* a faulty variant: the steps from the back
StepsReversed(code) == [i \in 1..Len(code.steps) |-> code.steps[Len(code.steps) + 1 - i]]
\* Bytecode::steps
Steps(code) == code.steps

\* Instruction::Vert(Vert(ids)), Instruction::Edge(Edge(ids)) and
\* Instruction::AddV(label)
VertStep(ids) == [tag |-> "Vert", ids |-> ids]
EdgeStep(ids) == [tag |-> "Edge", ids |-> ids]
AddVStep(label) == [tag |-> "AddV", label |-> label]

\* Ids::from of () and of an Id
IdsFromUnit == << >>
IdsFromId(id) == << id >>

\* TraversalSource::v, e and addV: a fresh Bytecode with the one step; the
\* GraphTraversal returned holds it beside a terminator that is a reference
\* to the graph
TraversalV(ids) == AddStep(BytecodeDefault, VertStep(ids))
TraversalE(ids) == AddStep(BytecodeDefault, EdgeStep(ids))
TraversalAddV(label) == AddStep(BytecodeDefault, AddVStep(label))

\* Result::Ok and Result::Err
Ok(x) == [ok |-> TRUE, val |-> x]
Err(e) == [ok |-> FALSE, err |-> e]

\* the End types a traversal is terminated as
Ends == {"PValue", "Vertex", "Edge"}

\* a faulty variant: the variant is not looked at
FromPValueUnchecked(end, pv) ==
  IF end = "PValue" \/ "val" \notin DOMAIN pv THEN Ok(pv) ELSE Ok(pv.val)

\* End::from_pvalue for End = PValue, Vertex and Edge
FromPValue(end, pv) ==
  CASE end = "PValue" -> Ok(pv)
    [] end = "Vertex" -> IF pv.tag = "Vertex" THEN Ok(pv.val) ELSE Err("InvalidPValue")
    [] end = "Edge" -> IF pv.tag = "Edge" THEN Ok(pv.val) ELSE Err("InvalidPValue")

\* to_pvalue of a PValue, a Vertex and an Edge
ToPValue(end, x) ==
  CASE end = "PValue" -> x
    [] end = "Vertex" -> PVertex(x)
    [] end = "Edge" -> PEdge(x)

\* a faulty variant: the ids are not looked at
ExecuteReadAll(st, head) == IF head.tag = "Vert" THEN Vertices(st) ELSE Edges(st)

\* WriteExecutor::execute on a Vert or Edge head: the full scan when no ids
\* are given, the lookups by id otherwise
ExecuteRead(st, head) ==
  IF head.tag = "Vert"
  THEN (IF head.ids = << >> THEN Vertices(st) ELSE GetVerticesByIds(st, head.ids))
  ELSE (IF head.ids = << >> THEN Edges(st) ELSE GetEdgesByIds(st, head.ids))

\* the panic of Result::unwrap, of todo!() and of assert_eq!
Panic == [panic |-> TRUE]

\* TraversalTerminator::to_list on the stream execute returned:
\* map(End::from_pvalue), map(Result::unwrap), collect, in Ok
Collect(stream, end) ==
  IF \E i \in 1..Len(stream) : ~FromPValue(end, stream[i]).ok THEN Panic
  ELSE [panic |-> FALSE, ok |-> TRUE,
        val |-> [i \in 1..Len(stream) |-> FromPValue(end, stream[i]).val]]

\* a faulty variant: an empty stream gives the none value
NextOfOrNone(stream, end) ==
  IF stream = << >> THEN Ok(PNone) ELSE FromPValue(end, Head(stream))

\* next of TraversalTerminator, as the commented-out code has it: the first
\* element of the stream through from_pvalue, EmptyTraversal when there is
\* none
NextOf(stream, end) ==
  IF stream = << >> THEN Err("EmptyTraversal") ELSE FromPValue(end, Head(stream))

\* ------------------------------------------------------------------ state
VARIABLES
  db,        \* the committed state of the environment: the six sub-databases
  now,       \* the system clock when it was last read, in milliseconds
  previous,  \* previous[h]: the last ULID of the generator of handle h
  issued,    \* the ids the generators have returned, oldest first
  wtxns,     \* wtxns[s]: an open write transaction (RwTxn), or NoTxn
  rtxns,     \* rtxns[r]: an open read transaction (RoTxn), or NoTxn
  waiting,   \* the calls blocked inside env.write_txn(): thread and handle
  nops,      \* put and clear calls made so far
  last       \* the latest put or clear call, its argument and its result

vars == << db, now, previous, issued, wtxns, rtxns, waiting, nops, last >>

NoTxn == [open |-> FALSE]
NoCall == [op |-> "none"]
WSlots == 1..MaxWriters
RSlots == 1..MaxReaders

OpenWriters == { s \in WSlots : wtxns[s].open }
OpenReaders == { r \in RSlots : rtxns[r].open }

IssuedIds(t) == { issued[i] : i \in { j \in 1..Len(issued) : issued[j].kind = t } }
IssuedUlids == { issued[i].ulid : i \in 1..Len(issued) }

Init ==
  /\ db = EmptyStore
  /\ now = 1
  /\ previous = [h \in Handles |-> UlidNil]
  /\ issued = << >>
  /\ wtxns = [s \in WSlots |-> NoTxn]
  /\ rtxns = [r \in RSlots |-> NoTxn]
  /\ waiting = {}
  /\ nops = 0
  /\ last = NoCall

\* a faulty variant: whoever finds the lock taken is refused
EnvWriteTxnRefusing(t, open) == IF open = {} THEN {"Ok"} ELSE {"MdbBusy"}

\* a faulty variant: no lock
EnvWriteTxnUnlocked(t, open) == {"Ok"}

\* env.write_txn() of heed called by thread t while the write transactions
\* in open are alive.  The environment has one write lock: the thread that
\* holds it is refused (MdbError::Busy, as test_mult_trans and
\* test_mult_graph expect), any other thread waits inside the call until
\* the lock is free (as test_mult_trans_threads and test_mult_graph_thread
\* expect: "deadlock due to mutex inside heed library").
EnvWriteTxn(t, open) ==
  IF open = {} THEN {"Ok"}
  ELSE IF \E s \in open : wtxns[s].t = t THEN {"MdbBusy"} ELSE {"Blocked"}

FreeSlot == CHOOSE x \in WSlots \ OpenWriters : \A y \in WSlots \ OpenWriters : x <= y
NewRwTxn(t, h) == [open |-> TRUE, t |-> t, h |-> h, view |-> db, base |-> db]

\* what write_txn_wait makes of the outcome: Busy becomes Error::Busy, any
\* other outcome is passed on
WriteTxnWaitResult(r) == IF r = "MdbBusy" THEN "Busy" ELSE r

\* write_txn_wait(d) called by thread t on handle h, d in seconds: the
\* duration is not used (_d); a call that waits is on record with the
\* clock reading it began at
WriteTxnWait(t, h, d) ==
  /\ \A w \in waiting : w.t # t
  /\ \E r \in EnvWriteTxn(t, OpenWriters) :
       /\ last' = [op |-> "write_txn_wait", t |-> t, h |-> h,
                   ret |-> WriteTxnWaitResult(r), held |-> OpenWriters # {},
                   waited |-> FALSE, d |-> d]
       /\ CASE r = "Ok" ->
                 /\ WSlots \ OpenWriters # {}
                 /\ wtxns' = [wtxns EXCEPT ![FreeSlot] = NewRwTxn(t, h)]
                 /\ UNCHANGED waiting
            [] r = "MdbBusy" -> UNCHANGED << wtxns, waiting >>
            [] r = "Blocked" ->
                 /\ waiting' = waiting \cup {[t |-> t, h |-> h, d |-> d, since |-> now]}
                 /\ UNCHANGED wtxns
  /\ UNCHANGED << db, now, previous, issued, rtxns, nops >>

\* a blocked env.write_txn() returns once the lock is free
WriteTxnResume(t, h) ==
  /\ "Ok" \in EnvWriteTxn(t, OpenWriters)
  /\ \E w \in waiting :
       /\ w.t = t /\ w.h = h
       /\ waiting' = waiting \ {w}
       /\ last' = [op |-> "write_txn_wait", t |-> t, h |-> h,
                   ret |-> WriteTxnWaitResult("Ok"), held |-> OpenWriters # {},
                   waited |-> TRUE, d |-> w.d]
  /\ wtxns' = [wtxns EXCEPT ![FreeSlot] = NewRwTxn(t, h)]
  /\ UNCHANGED << db, now, previous, issued, rtxns, nops >>

\* write_txn
WriteTxn(t, h) == WriteTxnWait(t, h, WriteTxnSecs)

\* a faulty variant: the snapshot shows the pages of an open write transaction
EnvReadTxnDirty ==
  IF OpenWriters # {} THEN wtxns[CHOOSE s \in OpenWriters : TRUE].view ELSE db

\* env.read_txn(): a snapshot of the committed state
EnvReadTxn == db

\* a put that the latest step committed or that a read transaction was
\* opened after stays on record; any other step forgets it
KeepCommitted == IF last.op \in {"put_vertex", "put_edge"} /\ last.ok /\ last.committed
                 THEN last ELSE NoCall

ReadTxn(r) ==
  /\ ~rtxns[r].open
  /\ rtxns' = [rtxns EXCEPT ![r] = [open |-> TRUE, view |-> EnvReadTxn, current |-> TRUE]]
  /\ last' = KeepCommitted
  /\ UNCHANGED << db, now, previous, issued, wtxns, waiting, nops >>

\* a read transaction is dropped
ReadDrop(r) ==
  /\ rtxns[r].open
  /\ rtxns' = [rtxns EXCEPT ![r] = NoTxn]
  /\ last' = NoCall
  /\ UNCHANGED << db, now, previous, issued, wtxns, waiting, nops >>

\* what commit makes the committed state: the view of the transaction
CommitResult(txn) == txn.view
\* a faulty variant: the pages written so far stay
AbortResultKept(txn) == txn.view

\* what dropping a write transaction leaves as the committed state
AbortResult(txn) == db

\* RwTxn::commit
Commit(s) ==
  /\ wtxns[s].open
  /\ \A w \in waiting : w.t # wtxns[s].t
  /\ db' = CommitResult(wtxns[s])
  /\ wtxns' = [wtxns EXCEPT ![s] = NoTxn]
  /\ rtxns' = [r \in RSlots |->
                 IF rtxns[r].open THEN [rtxns[r] EXCEPT !.current = FALSE]
                 ELSE rtxns[r]]
  /\ last' = IF last.op \in {"put_vertex", "put_edge", "clear"} /\ last.ok
                /\ last.s = s /\ ~last.committed
             THEN [last EXCEPT !.committed = TRUE] ELSE NoCall
  /\ UNCHANGED << now, previous, issued, waiting, nops >>

\* a write transaction is dropped without commit
Rollback(s) ==
  /\ wtxns[s].open
  /\ \A w \in waiting : w.t # wtxns[s].t
  /\ db' = AbortResult(wtxns[s])
  /\ wtxns' = [wtxns EXCEPT ![s] = NoTxn]
  /\ last' = [op |-> "drop", s |-> s, base |-> wtxns[s].base,
              view |-> wtxns[s].view]
  /\ UNCHANGED << now, previous, issued, rtxns, waiting, nops >>

\* the vertices a caller can hand to put_vertex: a new one, or one that
\* carries an id some put_vertex returned, with any label and parameters
VertexArgs ==
  { [id |-> i, label |-> l, parameters |-> p] :
      i \in {None} \cup IssuedIds("Vertex"), l \in Labels, p \in ParamMaps }

\* the edges a caller can hand to put_edge: Edge::new of two vertices that
\* carry ids, or an edge put_edge returned, with any label
EdgeArgs ==
  { [id |-> i, to |-> a, from |-> b, label |-> l, parameters |-> EmptyMap] :
      i \in {None} \cup IssuedIds("Edge"),
      a \in IssuedIds("Vertex"), b \in IssuedIds("Vertex"), l \in Labels }

\* the clock readings Id::new can get: the clock does not go back
ClockReads == { ms \in now..MaxClock : ms <= now + 1 }
\* the random bits of a fresh ULID: the least and the greatest
RandDraws == {0, RandCard - 1}

\* the record of a put: the call, its result, the view it found (before) and
\* whether it repeats the call made just before it (again)
Called(op, s, arg, ok, ret) ==
  [op |-> op, s |-> s, arg |-> arg, ok |-> ok, ret |-> ret, committed |-> FALSE,
   before |-> wtxns[s].view,
   again |-> last.op = op /\ last.s = s /\ last.arg = arg /\ last.ok /\ ~last.committed]

\* put_vertex or put_edge, by the store the call writes
PutStore(kind, st, n, fresh) ==
  IF kind = "Vertex" THEN PutVertex(st, n, fresh) ELSE PutEdge(st, n, fresh)

\* the put has run with result res: the view of the transaction and the record
PutDone(op, s, n, res) ==
  /\ wtxns' = [wtxns EXCEPT ![s].view = res.store]
  /\ last' = Called(op, s, n, TRUE, res.ret)

\* the put of an n without id: Id::new has read the clock as ms and the
\* generator has answered g; a fresh ULID does not repeat an id handed out
\* before
PutFresh(op, kind, s, h, n, ms, g) ==
  /\ now' = ms
  /\ IF g.ok
     THEN /\ g.ulid \notin IssuedUlids
          /\ Len(issued) < MaxAlloc
          /\ previous' = [previous EXCEPT ![h] = g.ulid]
          /\ issued' = Append(issued, Id(kind, g.ulid))
          /\ PutDone(op, s, n, PutStore(kind, wtxns[s].view, n, Id(kind, g.ulid)))
     ELSE /\ last' = Called(op, s, n, FALSE, "UlidOverflow")
          /\ UNCHANGED << previous, issued, wtxns >>

\* a put on the write transaction in slot s through handle h; kind names the
\* store it writes; ms is the clock reading and r the random bits Id::new
\* would get
PutCall(op, kind, s, h, n, ms, r) ==
  /\ wtxns[s].open
  /\ \A w \in waiting : w.t # wtxns[s].t
  /\ nops < MaxOps
  /\ nops' = nops + 1
  /\ IF n.id # None
     THEN /\ PutDone(op, s, n, PutStore(kind, wtxns[s].view, n, None))
          /\ UNCHANGED << now, previous, issued >>
     ELSE PutFresh(op, kind, s, h, n, ms, Generate(previous[h], ms, r))
  /\ UNCHANGED << db, rtxns, waiting >>

PutVertexCall(s, h, n, ms, r) == PutCall("put_vertex", "Vertex", s, h, n, ms, r)
PutEdgeCall(s, h, e, ms, r) == PutCall("put_edge", "Edge", s, h, e, ms, r)

ClearCall(s) ==
  /\ wtxns[s].open
  /\ \A w \in waiting : w.t # wtxns[s].t
  /\ nops < MaxOps
  /\ nops' = nops + 1
  /\ wtxns' = [wtxns EXCEPT ![s].view = Clear(@)]
  /\ last' = [op |-> "clear", s |-> s, ok |-> TRUE, committed |-> FALSE]
  /\ UNCHANGED << db, now, previous, issued, rtxns, waiting >>

\* one thread that keeps to one write transaction at a time, one handle, a
\* clock that stands still: the store under every put
Next ==
  \/ (OpenWriters = {} /\ WriteTxn(1, 1))
  \/ \E s \in WSlots : Commit(s)
  \/ \E s \in WSlots : Rollback(s)
  \/ \E s \in WSlots, r \in RandDraws :
        \E n \in VertexArgs : PutVertexCall(s, 1, n, now, r)
  \/ \E s \in WSlots, r \in RandDraws :
        \E e \in EdgeArgs : PutEdgeCall(s, 1, e, now, r)
  \/ \E s \in WSlots : ClearCall(s)

Spec == Init /\ [][Next]_vars

\* the same thread and handle working on vertices only
NextVertex ==
  \/ (OpenWriters = {} /\ WriteTxn(1, 1))
  \/ \E s \in WSlots : Commit(s)
  \/ \E s \in WSlots : Rollback(s)
  \/ \E s \in WSlots, r \in RandDraws :
        \E n \in VertexArgs : PutVertexCall(s, 1, n, now, r)
  \/ \E s \in WSlots : ClearCall(s)

SpecVertex == Init /\ [][NextVertex]_vars

\* new vertices of one label, to hang edges on
NewVertexArgs == { VertexNew(<<116>>) }

\* the same thread and handle working on edges between such vertices
NextEdge ==
  \/ (OpenWriters = {} /\ WriteTxn(1, 1))
  \/ \E s \in WSlots : Commit(s)
  \/ \E s \in WSlots : Rollback(s)
  \/ \E s \in WSlots, r \in RandDraws :
        \E n \in NewVertexArgs : PutVertexCall(s, 1, n, now, r)
  \/ \E s \in WSlots, r \in RandDraws :
        \E e \in EdgeArgs : PutEdgeCall(s, 1, e, now, r)
  \/ \E s \in WSlots : ClearCall(s)

SpecEdge == Init /\ [][NextEdge]_vars

\* the puts of the transaction scenarios: vertices without parameters
PlainVertexArgs == { n \in VertexArgs : n.parameters = EmptyMap }
LoopEdgeArgs == { e \in EdgeArgs : e.to = e.from /\ e.label = <<116>> }

\* one thread and one handle again, with read transactions beside the
\* write transaction
NextTxn ==
  \/ (OpenWriters = {} /\ WriteTxn(1, 1))
  \/ \E r \in RSlots : ReadTxn(r)
  \/ \E r \in RSlots : ReadDrop(r)
  \/ \E s \in WSlots : Commit(s)
  \/ \E s \in WSlots : Rollback(s)
  \/ \E s \in WSlots, r \in RandDraws :
        \E n \in PlainVertexArgs : PutVertexCall(s, 1, n, now, r)
  \/ \E s \in WSlots, r \in RandDraws :
        \E e \in LoopEdgeArgs : PutEdgeCall(s, 1, e, now, r)
  \/ \E s \in WSlots : ClearCall(s)

SpecTxn == Init /\ [][NextTxn]_vars

\* threads and handles sharing the environment: contention for the write
\* lock, each transaction putting new vertices through its handle; the clock
\* stands still and the random bits drawn are all zero
\* the handles a thread works through: the first thread holds every handle
\* (as the test body of test_mult_graph does), each other thread has one
\* handle moved into it
HandlesOf(t) == IF t = 1 THEN Handles ELSE {((t - 2) % NumHandles) + 1}

NextLock ==
  \/ \E t \in Threads : \E h \in HandlesOf(t) : WriteTxnWait(t, h, 0)
  \/ \E t \in Threads : \E h \in HandlesOf(t) : WriteTxnResume(t, h)
  \/ \E s \in WSlots : Commit(s)
  \/ \E s \in WSlots : Rollback(s)
  \/ \E s \in WSlots :
        \E n \in NewVertexArgs :
          wtxns[s].open /\ PutVertexCall(s, wtxns[s].h, n, now, 0)

SpecLock == Init /\ [][NextLock]_vars

\* one thread and one handle putting new vertices and new edges and clearing,
\* every transaction committed: the stores the lookups by id run on
NextByIds ==
  \/ (OpenWriters = {} /\ WriteTxn(1, 1))
  \/ \E s \in WSlots : Commit(s)
  \/ \E s \in WSlots, r \in RandDraws :
        \E n \in NewVertexArgs : PutVertexCall(s, 1, n, now, r)
  \/ \E s \in WSlots, r \in RandDraws :
        \E e \in { x \in LoopEdgeArgs : x.id = None } : PutEdgeCall(s, 1, e, now, r)
  \/ \E s \in WSlots : ClearCall(s)

SpecByIds == Init /\ [][NextByIds]_vars

\* the same threads and handles calling write_txn and write_txn_wait(0)
\* while the clock moves on; one call waits at a time and every transaction
\* is committed
NextTimeout ==
  \/ \E t \in Threads : \E h \in HandlesOf(t) : waiting = {} /\ WriteTxn(t, h)
  \/ \E t \in Threads : \E h \in HandlesOf(t) : waiting = {} /\ WriteTxnWait(t, h, 0)
  \/ \E t \in Threads : \E h \in HandlesOf(t) : WriteTxnResume(t, h)
  \/ \E s \in WSlots : Commit(s)
  \/ \E s \in WSlots, ms \in ClockReads :
        \E n \in NewVertexArgs :
          wtxns[s].open /\ PutVertexCall(s, wtxns[s].h, n, ms, 0)

SpecTimeout == Init /\ [][NextTimeout]_vars

\* the same threads and handles, one call waiting for the lock at a time and
\* every transaction committed, as in test_mult_trans_threads and
\* test_mult_graph_thread; the clock stands still
NextWait ==
  \/ \E t \in Threads : \E h \in HandlesOf(t) : waiting = {} /\ WriteTxnWait(t, h, 0)
  \/ \E t \in Threads : \E h \in HandlesOf(t) : WriteTxnResume(t, h)
  \/ \E s \in WSlots : Commit(s)
  \/ \E s \in WSlots :
        \E n \in NewVertexArgs :
          wtxns[s].open /\ PutVertexCall(s, wtxns[s].h, n, now, 0)

\* a thread that holds a write transaction goes on to commit it, and a call
\* waiting on the lock returns when the lock stays free
SpecWait ==
  /\ Init /\ [][NextWait]_vars
  /\ WF_vars(\E s \in WSlots : Commit(s))
  /\ WF_vars(\E t \in Threads : \E h \in HandlesOf(t) : WriteTxnResume(t, h))

\* new edges from a stored vertex to itself, one label
NewLoopEdgeArgs == { e \in LoopEdgeArgs : e.id = None }

\* one thread working through any of the handles, one write transaction at a
\* time, each committed, putting new vertices and new edges while the clock
\* moves on; each handle draws its own random bits
NextIds ==
  \/ \E h \in Handles : OpenWriters = {} /\ WriteTxn(1, h)
  \/ \E s \in WSlots : Commit(s)
  \/ \E s \in WSlots, ms \in ClockReads, r \in RandDraws :
        \E n \in NewVertexArgs :
          wtxns[s].open /\ PutVertexCall(s, wtxns[s].h, n, ms, r)
  \/ \E s \in WSlots, ms \in ClockReads, r \in RandDraws :
        \E e \in NewLoopEdgeArgs :
          wtxns[s].open /\ PutEdgeCall(s, wtxns[s].h, e, ms, r)

SpecIds == Init /\ [][NextIds]_vars

\* Edge::new(a, b, label): the call and what it returns; it takes no
\* transaction and no Graph
EdgeNewCall(a, b, label) ==
  /\ last' = [op |-> "Edge::new", to |-> a, from |-> b, label |-> label,
              ret |-> EdgeNew(a, b, label)]
  /\ UNCHANGED << db, now, previous, issued, wtxns, rtxns, waiting, nops >>

\* AddE(label) at the head of the steps has found the tags tf: the edge is put
AddEDone(s, h, label, tf, ms, r) ==
  IF tf.ok
  THEN PutEdgeCall(s, h, AddEEdge(tf, label), ms, r)
  ELSE /\ wtxns[s].open
       /\ \A w \in waiting : w.t # wtxns[s].t
       /\ last' = [op |-> "AddE", s |-> s, ok |-> FALSE, ret |-> "BadRequest",
                   err |-> tf.err]
       /\ UNCHANGED << db, now, previous, issued, wtxns, rtxns, waiting, nops >>

\* WriteExecutor::execute on AddE(label) followed by steps
AddECall(s, h, label, steps, ms, r) == AddEDone(s, h, label, PopToFrom(steps), ms, r)

\* v, e or addV has been called on a traversal source and has returned the
\* traversal holding code
TraversalCall(code) ==
  /\ last' = [op |-> "traversal", code |-> code]
  /\ UNCHANGED << db, now, previous, issued, wtxns, rtxns, waiting, nops >>

\* a terminator call that read only: the call and what it returned
Terminated(op, s, code, end, ret) ==
  /\ last' = [op |-> op, s |-> s, code |-> code, end |-> end, ret |-> ret]
  /\ UNCHANGED << db, now, previous, issued, wtxns, rtxns, waiting, nops >>

\* a faulty variant: AddV puts the vertex under another label
ExecuteWriteRelabelled(s, h, steps, ms, r) ==
  IF Head(steps).tag = "AddV"
  THEN PutVertexCall(s, h, VertexNew(<<116, 51>>), ms, r)
  ELSE AddECall(s, h, Head(steps).label, Tail(steps), ms, r)

\* execute on a head that writes: AddV puts a new vertex, AddE an edge
\* between the tagged ids; the record is that of the put
ExecuteWrite(s, h, steps, ms, r) ==
  IF Head(steps).tag = "AddV"
  THEN PutVertexCall(s, h, VertexNew(Head(steps).label), ms, r)
  ELSE AddECall(s, h, Head(steps).label, Tail(steps), ms, r)

\* Terminator::to_list(txn, code) for the End type end, on the write
\* transaction in slot s through handle h.  A head that writes is taken with
\* End = PValue, the End GraphTraversal::to_list fixes; any other head than
\* Vert, Edge, AddV and AddE is todo!()
ToListCall(s, h, code, end, ms, r) ==
  /\ wtxns[s].open
  /\ \A w \in waiting : w.t # wtxns[s].t
  /\ IF Steps(code) = << >> THEN Terminated("to_list", s, code, end, Collect(<< >>, end))
     ELSE IF Head(Steps(code)).tag \in {"Vert", "Edge"}
     THEN Terminated("to_list", s, code, end,
                     Collect(ExecuteRead(wtxns[s].view, Head(Steps(code))), end))
     ELSE IF Head(Steps(code)).tag \in {"AddV", "AddE"}
     THEN end = "PValue" /\ ExecuteWrite(s, h, Steps(code), ms, r)
     ELSE Terminated("to_list", s, code, end, Panic)

\* next(txn, code), as the commented-out code has it
NextCall(s, h, code, end, ms, r) ==
  /\ wtxns[s].open
  /\ \A w \in waiting : w.t # wtxns[s].t
  /\ IF Steps(code) = << >> THEN Terminated("next", s, code, end, NextOf(<< >>, end))
     ELSE IF Head(Steps(code)).tag \in {"Vert", "Edge"}
     THEN Terminated("next", s, code, end,
                     NextOf(ExecuteRead(wtxns[s].view, Head(Steps(code))), end))
     ELSE IF Head(Steps(code)).tag \in {"AddV", "AddE"}
     THEN end = "PValue" /\ ExecuteWrite(s, h, Steps(code), ms, r)
     ELSE Terminated("next", s, code, end, Panic)

\* the vertices a caller holds: new ones and the ones put_vertex returned
HeldVertices ==
  NewVertexArgs \cup
    { [id |-> i, label |-> <<116>>, parameters |-> EmptyMap] : i \in IssuedIds("Vertex") }

\* the ids a caller can put in a From or To step: the ids it was handed
TagIds == IssuedIds("Vertex") \cup IssuedIds("Edge")
\* the steps behind an AddE: both tags, or the To tag alone
TagSteps ==
  { << ToTag(a), FromTag(b) >> : a \in TagIds, b \in TagIds }
    \cup { << ToTag(a) >> : a \in TagIds }

\* one thread and one handle making edges with Edge::new and putting what it
\* returns, or adding them with AddE, between vertices that are stored,
\* cleared or rolled back
NextEdgeNew ==
  \/ (OpenWriters = {} /\ WriteTxn(1, 1))
  \/ \E s \in WSlots : Commit(s)
  \/ \E s \in WSlots : Rollback(s)
  \/ \E s \in WSlots, r \in RandDraws :
        \E n \in NewVertexArgs : PutVertexCall(s, 1, n, now, r)
  \/ \E s \in WSlots : ClearCall(s)
  \/ \E a \in HeldVertices, b \in HeldVertices : EdgeNewCall(a, b, <<116>>)
  \/ \E s \in WSlots, r \in RandDraws :
        /\ last.op = "Edge::new" /\ "err" \notin DOMAIN last.ret
        /\ PutEdgeCall(s, 1, last.ret, now, r)
  \/ \E s \in WSlots, steps \in TagSteps :
        AddECall(s, 1, <<116>>, steps, now, 0)

SpecEdgeNew == Init /\ [][NextEdgeNew]_vars

\* the ids a caller passes to v and e: ids handed out, and the nil vertex id
SourceIds == IssuedIds("Vertex") \cup IssuedIds("Edge") \cup {IdNil("Vertex")}

\* the traversals a source builds
Traversals ==
  { TraversalV(IdsFromUnit), TraversalE(IdsFromUnit), TraversalAddV(<<116>>) }
    \cup { TraversalV(IdsFromId(i)) : i \in SourceIds }
    \cup { TraversalE(IdsFromId(i)) : i \in SourceIds }

\* one thread and one handle putting new vertices and new edges, building
\* traversals and terminating them in write transactions that are committed
\* or dropped
NextTraversal ==
  \/ (OpenWriters = {} /\ WriteTxn(1, 1))
  \/ \E s \in WSlots : Commit(s)
  \/ \E s \in WSlots : Rollback(s)
  \/ \E s \in WSlots : \E n \in NewVertexArgs : PutVertexCall(s, 1, n, now, 0)
  \/ \E s \in WSlots :
        \E x \in { y \in LoopEdgeArgs : y.id = None } : PutEdgeCall(s, 1, x, now, 0)
  \/ \E code \in Traversals : TraversalCall(code)
  \/ \E s \in WSlots, end \in Ends :
        last.op = "traversal" /\ ToListCall(s, 1, last.code, end, now, 0)
  \/ \E s \in WSlots, end \in Ends :
        last.op = "traversal" /\ NextCall(s, 1, last.code, end, now, 0)

SpecTraversal == Init /\ [][NextTraversal]_vars

\* Instruction::AddE(label) and Instruction::Property(key, value)
AddEStep(label) == [tag |-> "AddE", label |-> label]
PropertyStep(k, pv) == [tag |-> "Property", key |-> k, value |-> pv]

\* VecDeque::remove(idx), idx counted from 0: the element is taken out when
\* idx is in range, nothing happens otherwise
RemoveAt(steps, idx) ==
  IF idx < Len(steps)
  THEN SubSeq(steps, 1, idx) \o SubSeq(steps, idx + 2, Len(steps))
  ELSE steps

RECURSIVE Dels(_, _)
\* dels of pop_to_from: the indexes of the From and To steps from idx on, in
\* the order the loop pushes them
Dels(steps, idx) ==
  IF idx >= Len(steps) THEN << >>
  ELSE (IF steps[idx + 1].tag \in {"From", "To"} THEN << idx >> ELSE << >>)
         \o Dels(steps, idx + 1)

RECURSIVE RemoveEach(_, _)
\* for idx in dels { steps.remove(idx); }
RemoveEach(steps, dels) ==
  IF dels = << >> THEN steps
  ELSE RemoveEach(RemoveAt(steps, Head(dels)), Tail(dels))

\* the working steps of execute when pop_to_from has returned
PopToFromSteps(steps) == RemoveEach(steps, Dels(steps, 0))

RECURSIVE BytecodeOf(_)
\* the Bytecode built by add_step of each step in turn on Bytecode::default()
BytecodeOf(steps) ==
  IF steps = << >> THEN BytecodeDefault
  ELSE AddStep(BytecodeOf(SubSeq(steps, 1, Len(steps) - 1)), steps[Len(steps)])

\* the steps put behind a head: none, a Property, a From, a To, and both
\* tags in either order with a Property before, between or behind them
TailsOf(a, b) ==
  { << >>, << PropertyStep(<<107>>, PNone) >>, << FromTag(a) >>, << ToTag(b) >>,
    << FromTag(a), ToTag(b) >>, << ToTag(b), FromTag(a) >>,
    << PropertyStep(<<107>>, PNone), FromTag(a), ToTag(b) >>,
    << FromTag(a), PropertyStep(<<107>>, PNone), ToTag(b) >>,
    << ToTag(b), FromTag(a), PropertyStep(<<107>>, PNone) >> }
\* behind AddE the tags name vertices the caller was handed: From the first
\* of them, To any
AddETails ==
  UNION { TailsOf(p[1], p[2]) :
            p \in { q \in IssuedIds("Vertex") \X IssuedIds("Vertex") : q[1] = issued[1] } }
\* behind the other heads
ExecTails ==
  { << >>, << PropertyStep(<<107>>, PNone) >>,
    << FromTag(IdNil("Vertex")), ToTag(IdMax("Vertex")) >>,
    << PropertyStep(<<107>>, PNone), ToTag(IdMax("Vertex")), FromTag(IdNil("Vertex")) >> }

\* the heads: every Instruction
ExecHeads ==
  { VertStep(IdsFromUnit), EdgeStep(IdsFromUnit), AddVStep(<<116>>), AddEStep(<<116>>),
    PropertyStep(<<107>>, PNone), FromTag(IdNil("Vertex")), ToTag(IdNil("Vertex")) }

\* the step lists handed to the executor: the empty one, and a head with a
\* tail
ExecSteps ==
  { << >> } \cup { << hd >> \o tl : hd \in ExecHeads, tl \in ExecTails }
            \cup { << AddEStep(<<116>>) >> \o tl : tl \in AddETails }

\* a Bytecode has been built inside the crate and is held by a traversal
BytecodeCall(steps) == TraversalCall(BytecodeOf(steps))

\* one thread and one handle building Bytecode of every shape and
\* terminating it in write transactions with End = PValue, as GraphTraversal
\* does; all vertices and edges are put by AddV and AddE
NextExecute ==
  \/ (OpenWriters = {} /\ WriteTxn(1, 1))
  \/ \E s \in WSlots : Commit(s)
  \/ \E steps \in ExecSteps : BytecodeCall(steps)
  \/ \E s \in WSlots :
        last.op = "traversal" /\ ToListCall(s, 1, last.code, "PValue", now, 0)
  \/ \E s \in WSlots :
        last.op = "traversal" /\ NextCall(s, 1, last.code, "PValue", now, 0)

SpecExecute == Init /\ [][NextExecute]_vars

\* the parameters a caller passes: none, or one key bound to either value
BoundMaps == { EmptyMap } \cup UNION { [ {k} -> PValues ] : k \in PKeys }
BoundVertexArgs ==
  { [id |-> i, label |-> <<116>>, parameters |-> p] :
      i \in {None} \cup IssuedIds("Vertex"), p \in BoundMaps }
BoundEdgeArgs ==
  { [id |-> i, to |-> a, from |-> a, label |-> <<116>>, parameters |-> p] :
      i \in {None} \cup IssuedIds("Edge"), a \in IssuedIds("Vertex"), p \in BoundMaps }

\* one thread and one handle putting vertices and edges with parameters, new
\* and stored ones, and clearing
NextParams ==
  \/ (OpenWriters = {} /\ WriteTxn(1, 1))
  \/ \E s \in WSlots : Commit(s)
  \/ \E s \in WSlots : \E n \in BoundVertexArgs : PutVertexCall(s, 1, n, now, 0)
  \/ \E s \in WSlots : \E e \in BoundEdgeArgs : PutEdgeCall(s, 1, e, now, 0)
  \/ \E s \in WSlots : ClearCall(s)

SpecParams == Init /\ [][NextParams]_vars

\* the read operations of Graph
ReadOps ==
  {"get_vertex_by_id", "get_edge_by_id", "vertices", "edges", "vertex_count", "edge_count"}

\* what the read operation op returns on the view st, for the id asked
ReadResult(op, st, id) ==
  CASE op = "get_vertex_by_id" -> GetVertexById(st, id)
    [] op = "get_edge_by_id" -> GetEdgeById(st, id)
    [] op = "vertices" -> Vertices(st)
    [] op = "edges" -> Edges(st)
    [] op = "vertex_count" -> VertexCount(st)
    [] op = "edge_count" -> EdgeCount(st)

\* a read operation on the write transaction in slot s, taken as the RoTxn
\* it derefs to: the call and what it returned
ReadCall(s, op, id) ==
  /\ wtxns[s].open
  /\ \A w \in waiting : w.t # wtxns[s].t
  /\ last' = [op |-> op, s |-> s, id |-> id, ret |-> ReadResult(op, wtxns[s].view, id)]
  /\ UNCHANGED << db, now, previous, issued, wtxns, rtxns, waiting, nops >>

\* the ids a caller asks the read operation for: the get operations take an
\* id it was handed, the others none
ReadIds(op) ==
  IF op \in {"get_vertex_by_id", "get_edge_by_id"}
  THEN IssuedIds("Vertex") \cup IssuedIds("Edge") ELSE {None}

\* one thread and one handle putting vertices and edges, new and stored ones,
\* and reading in between
NextFrame ==
  \/ (OpenWriters = {} /\ WriteTxn(1, 1))
  \/ \E s \in WSlots : Commit(s)
  \/ \E s \in WSlots :
        \E n \in { v \in VertexArgs : v.parameters = EmptyMap } : PutVertexCall(s, 1, n, now, 0)
  \/ \E s \in WSlots : \E e \in LoopEdgeArgs : PutEdgeCall(s, 1, e, now, 0)
  \/ \E s \in WSlots, op \in ReadOps : \E id \in ReadIds(op) : ReadCall(s, op, id)

SpecFrame == Init /\ [][NextFrame]_vars

\* ----------------------------------------------------------------- claims
\* every state of the store a transaction can read: the committed state, the
\* view of an open write transaction, the snapshot of an open read transaction
Views ==
  {db} \cup { wtxns[s].view : s \in OpenWriters }
       \cup { rtxns[r].view : r \in OpenReaders }

\* the records of vertices:v1 and of edges:v1, decoded
StoredVertices(st) == { VertexDecode(st.vertex_db[k]) : k \in DOMAIN st.vertex_db }
StoredEdges(st) == { EdgeDecode(st.edge_db[k]) : k \in DOMAIN st.edge_db }

VertexIdxExact(st) ==
  /\ None \notin StoredVertices(st)
  /\ \A v \in StoredVertices(st) : v.id # None
  /\ DOMAIN st.vertex_idx_db =
       { LabelIdEncode(v.label, v.id) : v \in StoredVertices(st) }
  /\ \A v \in StoredVertices(st) :
       st.vertex_idx_db[LabelIdEncode(v.label, v.id)] = IdBytesEncode(v.id)
  /\ DbLen(st.vertex_idx_db) = DbLen(st.vertex_db)

EdgeIdxExact(st) ==
  /\ None \notin StoredEdges(st)
  /\ \A e \in StoredEdges(st) : e.id # None
  /\ DOMAIN st.edge_idx_db =
       { LabelIdEncode(e.label, e.id) : e \in StoredEdges(st) }
  /\ \A e \in StoredEdges(st) :
       st.edge_idx_db[LabelIdEncode(e.label, e.id)] = IdBytesEncode(e.id)
  /\ DbLen(st.edge_idx_db) = DbLen(st.edge_db)

\* C1: in every state that put_vertex, clear, commit and rollback reach, the
\* entries of vertices_idx:v1 are exactly (v.label, v.id) -> v.id for the
\* records v of vertices:v1: one entry per stored vertex, under its current
\* label, none for a missing vertex.  It holds of the committed state and of
\* what every open transaction reads.
C1_VertexIndexExact == \A st \in Views : VertexIdxExact(st)

\* a stored vertex was put again under another label, beside a second vertex
C1_Witness ==
  /\ last.op = "put_vertex" /\ last.ok /\ last.arg.id # None
  /\ VertexGet(last.before, last.arg.id) # None
  /\ VertexGet(last.before, last.arg.id).label # last.arg.label
  /\ DbLen(wtxns[last.s].view.vertex_db) = 2

\* C2: in every state that put_edge, clear, commit and rollback reach, the
\* entries of edges_idx:v1 are exactly (e.label, e.id) -> e.id for the records
\* e of edges:v1; and a put_edge of a stored edge under another label leaves
\* the number of edges as it was (1 when it was the only edge: edge_count
\* does not panic and returns it) and get_edge_by_id returns the new label.
C2_EdgeIndexExact ==
  /\ \A st \in Views : EdgeIdxExact(st)
  /\ (/\ last.op = "put_edge" /\ last.ok /\ last.arg.id # None
      /\ EdgeGet(last.before, last.arg.id) # None)
     => LET st == wtxns[last.s].view
        IN  /\ ~last.committed => /\ EdgeCount(st) = EdgeCount(last.before)
                                  /\ GetEdgeById(st, last.arg.id) = last.arg
            /\ last.committed => GetEdgeById(db, last.arg.id) = last.arg

\* the only stored edge was put again under another label
C2_Witness ==
  /\ last.op = "put_edge" /\ last.ok /\ last.arg.id # None
  /\ EdgeGet(last.before, last.arg.id) # None
  /\ EdgeGet(last.before, last.arg.id).label # last.arg.label
  /\ EdgeCount(wtxns[last.s].view) = [panic |-> FALSE, n |-> 1]

C6_PutThenGet ==
  (last.op = "put_vertex" /\ last.ok /\ last.arg.id = None) =>
     /\ last.ret.id # None
     /\ last.ret.id.kind = "Vertex"
     /\ last.ret.label = last.arg.label
     /\ last.ret.parameters = last.arg.parameters
     /\ last.ret = [last.arg EXCEPT !.id = last.ret.id]
     /\ ~last.committed =>
          /\ wtxns[last.s].open
          /\ GetVertexById(wtxns[last.s].view, last.ret.id) = last.ret
     /\ last.committed =>
          /\ GetVertexById(EnvReadTxn, last.ret.id) = last.ret
          /\ \A r \in OpenReaders :
               rtxns[r].current => GetVertexById(rtxns[r].view, last.ret.id) = last.ret

\* a vertex put without an id has been committed and a read transaction
\* opened after the commit is open
C6_Witness ==
  /\ last.op = "put_vertex" /\ last.ok /\ last.arg.id = None /\ last.committed
  /\ \E r \in OpenReaders : rtxns[r].current

\* the ids of the vertices a label scan returned
IdsOf(seq) == { seq[i].id : i \in 1..Len(seq) }

\* C7: after put_vertex of a stored vertex under another label, in the
\* transaction that stored it or in a later one, and again once that put has
\* committed: vertex_count returns what it returned before (1 when the vertex
\* was alone), get_vertex_by_id returns the vertex with the new label, the scan
\* of the old label does not return it and the scan of the new label does;
\* when it was alone, get_vertex_by_label of the old label returns nothing and
\* get_vertex_by_label of the new label returns it.
C7_RePutChangedLabel ==
  (/\ last.op = "put_vertex" /\ last.ok /\ last.arg.id # None
   /\ VertexGet(last.before, last.arg.id) # None
   /\ VertexGet(last.before, last.arg.id).label # last.arg.label)
  => LET st  == IF last.committed THEN db ELSE wtxns[last.s].view
         old == VertexGet(last.before, last.arg.id).label
     IN  /\ VertexCount(st) = VertexCount(last.before)
         /\ ~VertexCount(st).panic
         /\ GetVertexById(st, last.arg.id) = last.arg
         /\ last.arg.id \notin IdsOf(GetVerticesByLabel(st, old))
         /\ Cardinality({ i \in 1..Len(GetVerticesByLabel(st, last.arg.label)) :
                            GetVerticesByLabel(st, last.arg.label)[i] = last.arg }) = 1
         /\ VertexCount(last.before).n = 1 =>
              /\ VertexCount(st).n = 1
              /\ GetVertexByLabel(st, old) = None
              /\ GetVertexByLabel(st, last.arg.label) = last.arg

\* the only stored vertex was put again under another label and the put has
\* committed
C7_Witness ==
  /\ last.op = "put_vertex" /\ last.ok /\ last.arg.id # None /\ last.committed
  /\ VertexGet(last.before, last.arg.id) # None
  /\ VertexGet(last.before, last.arg.id).label # last.arg.label
  /\ VertexCount(last.before) = [panic |-> FALSE, n |-> 1]

\* C8, as the specification states it: a put_vertex that repeats the call
\* made just before it, with the same vertex value, with or without an id,
\* leaves every sub-database as the first call left it.
C8_PutTwiceAnyVertex ==
  (last.op = "put_vertex" /\ last.ok /\ last.again)
    => (IF last.committed THEN db ELSE wtxns[last.s].view) = last.before

\* C8, amended: a put_vertex that repeats the call made just before it with
\* the same vertex value, the value carrying an id, leaves every sub-database
\* as the first call left it.
C8_PutTwiceWithId ==
  (last.op = "put_vertex" /\ last.ok /\ last.again /\ last.arg.id # None)
    => (IF last.committed THEN db ELSE wtxns[last.s].view) = last.before

\* a vertex carrying an id and a parameter was put twice in a row
C8_Witness ==
  /\ last.op = "put_vertex" /\ last.ok /\ last.again /\ last.arg.id # None
  /\ last.arg.parameters # EmptyMap
  /\ last.before.parameters_db # EmptyDb
  /\ ~last.committed

\* the labels scanned for: the labels vertices and edges are put under, the
\* empty label and "t2", which nothing is put under
ScanLabels == Labels \cup { << >>, <<116, 50>> }

SeqRange(seq) == { seq[i] : i \in 1..Len(seq) }

\* C9: in every transaction, get_vertices_by_label(L) yields exactly the
\* stored vertices whose label is L, each once and as the record of
\* vertices:v1; it yields nothing when no vertex has label L; a vertex
\* labelled "t3" is not yielded for "t".
C9_VerticesByLabel ==
  \A st \in Views : \A L \in ScanLabels :
    LET got == GetVerticesByLabel(st, L)
    IN  /\ SeqRange(got) = { v \in StoredVertices(st) : v.label = L }
        /\ Cardinality(SeqRange(got)) = Len(got)
        /\ GetVertexByLabel(st, L) = None <=>
             { v \in StoredVertices(st) : v.label = L } = {}

\* a transaction sees two vertices labelled "t" and one labelled "t3"
C9_Witness ==
  \E st \in Views :
    /\ Len(GetVerticesByLabel(st, <<116>>)) = 2
    /\ Len(GetVerticesByLabel(st, <<116, 51>>)) = 1

ScanIds(scan) == [i \in 1..Len(scan) |-> scan[i].val.id]

\* the place of id in the sequence of ids handed out, 0 when it is not there
IssuedAt(id) ==
  IF \E i \in 1..Len(issued) : issued[i] = id
  THEN CHOOSE i \in 1..Len(issued) : issued[i] = id
  ELSE 0

\* the scan yields every record of the primary store db once, tagged tag, in
\* ascending order of the id keys
FullScan(scan, d, tag, records) ==
  /\ Len(scan) = DbLen(d)
  /\ \A i \in 1..Len(scan) : scan[i].tag = tag /\ scan[i].val \in records
  /\ { IdBytesEncode(scan[i].val.id) : i \in 1..Len(scan) } = DOMAIN d
  /\ \A i, j \in 1..Len(scan) :
       i < j => scan[i].val.id.ulid < scan[j].val.id.ulid

\* the ids were handed out in the order the scan yields them
InPutOrder(ids) ==
  \A i, j \in 1..Len(ids) : i < j => IssuedAt(ids[i]) < IssuedAt(ids[j])

\* C11: in every transaction, vertices(txn) yields every record of
\* vertices:v1 exactly once as PValue::Vertex, in ascending id order, which for
\* vertices put without an id is the order they were put in; edges(txn) does
\* the same for edges:v1.
C11_FullScanInPutOrder ==
  \A st \in Views :
    /\ FullScan(Vertices(st), st.vertex_db, "Vertex", StoredVertices(st))
    /\ FullScan(Edges(st), st.edge_db, "Edge", StoredEdges(st))
    /\ InPutOrder(ScanIds(Vertices(st)))
    /\ InPutOrder(ScanIds(Edges(st)))

\* C15: every id put_vertex or put_edge allocates has a ULID strictly greater
\* than every id allocated before it in the process, whichever handle
\* allocated it; so the ids allocated are pairwise distinct.
C15_IdsMonotonic ==
  \A i, j \in 1..Len(issued) : i < j => issued[i].ulid < issued[j].ulid

\* C12: in every state that put_vertex, put_edge, clear, commit and rollback
\* reach, and in every transaction, the assertion of vertex_count and of
\* edge_count holds (the primary store and the label index have the same
\* length), so neither call panics, and each returns the number of records
\* that vertices(txn), respectively edges(txn), yields.
C12_CountsNeverPanic ==
  \A st \in Views :
    /\ DbLen(st.vertex_db) = DbLen(st.vertex_idx_db)
    /\ DbLen(st.edge_db) = DbLen(st.edge_idx_db)
    /\ VertexCount(st) = [panic |-> FALSE, n |-> Len(Vertices(st))]
    /\ EdgeCount(st) = [panic |-> FALSE, n |-> Len(Edges(st))]

\* a stored vertex that an edge hangs on was put again under another label
C12_Witness ==
  /\ last.op = "put_vertex" /\ last.ok /\ last.arg.id # None /\ ~last.committed
  /\ VertexGet(last.before, last.arg.id) # None
  /\ VertexGet(last.before, last.arg.id).label # last.arg.label
  /\ VertexCount(wtxns[last.s].view) = [panic |-> FALSE, n |-> 1]
  /\ EdgeCount(wtxns[last.s].view) = [panic |-> FALSE, n |-> 1]

\* C13: after clear(txn), inside the same write transaction and after its
\* commit, each of the six sub-databases (vertices:v1, vertices_idx:v1,
\* edges:v1, edges_idx:v1, parameters:v1, parameters_idx:v1) has no entry.
C13_ClearEmptiesAllSix ==
  last.op = "clear" =>
    (IF last.committed THEN db ELSE wtxns[last.s].view) = EmptyStore

\* the bindings of parameters:v1 and the entries of parameters_idx:v1
\* correspond one to one: (o, k) -> pv beside (k, o) -> o
ParamIdxExact(st) ==
  /\ \A b \in DOMAIN st.parameters_db :
       /\ IdParamDecode(b) # None
       /\ PValueDecode(st.parameters_db[b]) # None
       /\ LET x == IdParamDecode(b)
          IN  /\ ParamIdEncode(x.key, x.id) \in DOMAIN st.parameters_idx_db
              /\ st.parameters_idx_db[ParamIdEncode(x.key, x.id)] = IdBytesEncode(x.id)
  /\ \A b \in DOMAIN st.parameters_idx_db :
       /\ ParamIdDecode(b) # None
       /\ LET x == ParamIdDecode(b)
          IN  /\ IdParamEncode(x.id, x.key) \in DOMAIN st.parameters_db
              /\ IdBytesDecode(st.parameters_idx_db[b]) = x.id
  /\ DbLen(st.parameters_db) = DbLen(st.parameters_idx_db)

\* C14: in every reachable state and in every transaction, each entry
\* (o, k) -> pv of parameters:v1 has exactly one entry (k, o) -> o in
\* parameters_idx:v1 and parameters_idx:v1 has no entry without its binding,
\* across put_vertex, put_edge, re-puts and clear.
C14_ParamIndexExact == \A st \in Views : ParamIdxExact(st)

\* two vertices have put a binding each and clear has run since: the
\* bindings are there, the vertices are not
C14_Witness ==
  \E st \in Views :
    /\ DbLen(st.parameters_db) = 2
    /\ st.vertex_db = EmptyDb

\* the sentinel ids of the two stored kinds, as keys
SentinelKeys ==
  { IdBytesEncode(IdNil(t)) : t \in {"Vertex", "Edge"} }
    \cup { IdBytesEncode(IdMax(t)) : t \in {"Vertex", "Edge"} }

C17_EdgeNew ==
  /\ [](last.op = "Edge::new" =>
          /\ (last.ret = [err |-> "VertexInvalid"])
               <=> (last.to.id = None \/ last.from.id = None)
          /\ (last.to.id # None /\ last.from.id # None) =>
               last.ret = [id |-> None, to |-> last.to.id, from |-> last.from.id,
                           label |-> last.label, parameters |-> EmptyMap])
  /\ [][last'.op = "Edge::new" =>
          /\ db' = db /\ wtxns' = wtxns /\ rtxns' = rtxns
          /\ previous' = previous /\ issued' = issued]_vars

\* Edge::new was refused for a stored vertex and a new one, inside a write
\* transaction that holds the stored vertex
C17_Witness ==
  /\ last.op = "Edge::new" /\ last.ret = [err |-> "VertexInvalid"]
  /\ last.to.id # None /\ last.from.id = None
  /\ \E s \in OpenWriters : GetVertexById(wtxns[s].view, last.to.id) # None

\* the store with nothing in vertices:v1 and vertices_idx:v1
NoVertices(st) == [st EXCEPT !.vertex_db = EmptyDb, !.vertex_idx_db = EmptyDb]

\* C19: put_edge does not check the endpoints: it succeeds (short of a ULID
\* overflow) and stores the edge also when its to or from id is not a key of
\* vertices:v1; it leaves vertices:v1 and vertices_idx:v1 as they were and
\* writes what it would write were vertices:v1 empty.
C19_PutEdgeUnchecked ==
  (last.op = "put_edge" /\ ~last.committed) =>
    /\ ~last.ok => (last.arg.id = None /\ last.ret = "UlidOverflow")
    /\ last.ok =>
         /\ wtxns[last.s].view.vertex_db = last.before.vertex_db
         /\ wtxns[last.s].view.vertex_idx_db = last.before.vertex_idx_db
         /\ last.ret.to = last.arg.to /\ last.ret.from = last.arg.from
         /\ GetEdgeById(wtxns[last.s].view, last.ret.id) = last.ret
         /\ PutEdge(NoVertices(last.before), last.arg, last.ret.id).store
              = NoVertices(wtxns[last.s].view)

\* an edge was put between endpoints that are in vertices:v1 neither in the
\* transaction nor in the committed state
C19_Witness ==
  /\ last.op = "put_edge" /\ last.ok /\ ~last.committed
  /\ IdBytesEncode(last.arg.to) \notin
       (DOMAIN last.before.vertex_db \cup DOMAIN db.vertex_db)
  /\ IdBytesEncode(last.arg.from) \notin
       (DOMAIN last.before.vertex_db \cup DOMAIN db.vertex_db)
  /\ GetEdgeById(wtxns[last.s].view, last.ret.id) = last.ret

\* C20: every edge stored in edges:v1 has an id of kind Edge and to and from
\* ids of kind Vertex, whether put_edge was handed an Edge::new result or the
\* edge was added by AddE from its From(id) and To(id) steps.
C20_EndpointKinds ==
  \A st \in Views : \A e \in StoredEdges(st) :
    /\ e # None
    /\ e.id # None /\ e.id.kind = "Edge"
    /\ e.to.kind = "Vertex" /\ e.from.kind = "Vertex"

\* the stored edges that run between the endpoints of e under its label
ParallelTo(st, e) ==
  { x \in StoredEdges(st) : x.to = e.to /\ x.from = e.from /\ x.label = e.label }

\* C18: each put_edge of an edge without id stores one more record under an
\* id no stored edge has, and one more label-index entry, whatever edges with
\* the same (to, from, label) are stored already: edge_count grows by one and
\* get_edges_by_label(label) yields the new edge beside all it yielded
\* before; so n such puts store n edges with n distinct ids.
C18_ParallelEdges ==
  (last.op = "put_edge" /\ last.ok /\ last.arg.id = None /\ ~last.committed) =>
    LET st == wtxns[last.s].view
    IN  /\ IdBytesEncode(last.ret.id) \notin DOMAIN last.before.edge_db
        /\ StoredEdges(st) = StoredEdges(last.before) \cup {last.ret}
        /\ DbLen(st.edge_db) = DbLen(last.before.edge_db) + 1
        /\ DbLen(st.edge_idx_db) = DbLen(last.before.edge_idx_db) + 1
        /\ ~EdgeCount(st).panic /\ ~EdgeCount(last.before).panic
        /\ EdgeCount(st).n = EdgeCount(last.before).n + 1
        /\ SeqRange(GetEdgesByLabel(st, last.arg.label))
             = SeqRange(GetEdgesByLabel(last.before, last.arg.label)) \cup {last.ret}
        /\ Len(GetEdgesByLabel(st, last.arg.label))
             = Len(GetEdgesByLabel(last.before, last.arg.label)) + 1
        /\ Cardinality(ParallelTo(st, last.arg))
             = Cardinality(ParallelTo(last.before, last.arg)) + 1

\* the same new edge was put twice in a row: two stored edges with the same
\* to, from and label
C18_Witness ==
  /\ last.op = "put_edge" /\ last.ok /\ last.arg.id = None /\ ~last.committed
  /\ last.again
  /\ Cardinality(ParallelTo(wtxns[last.s].view, last.arg)) = 2
  /\ EdgeCount(wtxns[last.s].view) = [panic |-> FALSE, n |-> 2]
  /\ Len(GetEdgesByLabel(wtxns[last.s].view, last.arg.label)) = 2

\* the latest step was a write_txn_wait of a thread while another thread
\* held the write transaction
CalledWhileOtherHolds ==
  /\ last.op = "write_txn_wait" /\ last.held
  /\ \E s \in OpenWriters : wtxns[s].t # last.t

\* C21: a write_txn_wait made by one thread while another thread holds the
\* write transaction fails at once: it has returned Busy or TimedOut, it has
\* not returned a transaction and it is not waiting inside the call for the
\* holder to finish.
C21_OtherThreadFailsAtOnce ==
  CalledWhileOtherHolds =>
    /\ last.ret \in {"Busy", "TimedOut"}
    /\ \A w \in waiting : w.t # last.t

C23_HandlesShareStoreInPutOrder ==
  LET got == Vertices(EnvReadTxn)
  IN  /\ FullScan(got, db.vertex_db, "Vertex", StoredVertices(db))
      /\ (last.op = "put_vertex" /\ last.ok /\ last.committed)
           => PVertex(last.ret) \in SeqRange(got)
      /\ InPutOrder(ScanIds(got))

\* the milliseconds of d seconds
Millis(d) == d * 1000

\* C24: write_txn_wait(d) waits at most d for the write lock: no call is
\* inside write_txn_wait after more than d has passed on the clock since it
\* began; a call that has returned without the lock has returned Busy or
\* TimedOut, one that got it Ok; and write_txn is write_txn_wait of 30
\* seconds.
C24_WaitsAtMostD ==
  /\ \A w \in waiting : now <= w.since + Millis(w.d)
  /\ (last.op = "write_txn_wait" /\ \A w \in waiting : w.t # last.t) =>
       /\ last.ret \in {"Ok", "Busy", "TimedOut"}
       /\ last.d \in {0, WriteTxnSecs}

\* the ids a caller can ask for: ids put_vertex and put_edge returned, and
\* the nil id
AskedIds == IssuedIds("Vertex") \cup IssuedIds("Edge") \cup {IdNil("Vertex")}

\* the lists of up to three of them, repeats included
AskedLists ==
  {<< >>} \cup { <<a>> : a \in AskedIds } \cup { <<a, b>> : a, b \in AskedIds }
          \cup { <<a, b, c>> : a, b, c \in AskedIds }

\* how many of the first n ids are keys of the store d
KeysAmong(d, ids, n) ==
  Cardinality({ j \in 1..n : IdBytesEncode(ids[j]) \in DOMAIN d })

\* got holds, in the order of ids, the record of the store d of st under each
\* id that is a key of d, once per occurrence of the id, tagged tag, and
\* nothing else
RecordsInInputOrder(got, st, d, ids, tag) ==
  /\ Len(got) = KeysAmong(d, ids, Len(ids))
  /\ \A i \in 1..Len(ids) :
       IdBytesEncode(ids[i]) \in DOMAIN d =>
         /\ got[KeysAmong(d, ids, i)].tag = tag
         /\ got[KeysAmong(d, ids, i)].val =
              (IF tag = "Vertex" THEN VertexGet(st, ids[i]) ELSE EdgeGet(st, ids[i]))
         /\ got[KeysAmong(d, ids, i)].val.id = ids[i]

\* C25: in every transaction and for every list of ids, get_vertices_by_ids
\* yields, in the order of the list, the stored vertex of each id that is a
\* key of vertices:v1, once for every occurrence of the id; an id without a
\* record is passed over and no error is returned; get_edges_by_ids does the
\* same over edges:v1.
C25_ByIdsInInputOrder ==
  \A st \in Views : \A ids \in AskedLists :
    /\ RecordsInInputOrder(GetVerticesByIds(st, ids), st, st.vertex_db, ids, "Vertex")
    /\ RecordsInInputOrder(GetEdgesByIds(st, ids), st, st.edge_db, ids, "Edge")

\* a transaction in which a list naming a stored vertex twice, around an id
\* without a vertex, yields the vertex twice, and a list of an edge id, the
\* nil id and the edge id yields the edge twice
C25_Witness ==
  \E st \in Views : \E a \in IssuedIds("Vertex"), e \in IssuedIds("Edge") :
    /\ Len(GetVerticesByIds(st, <<a, e, a>>)) = 2
    /\ Len(GetEdgesByIds(st, <<e, IdNil("Vertex"), e>>)) = 2
    /\ \E b \in IssuedIds("Vertex") :
         /\ b # a
         /\ ScanIds(GetVerticesByIds(st, <<b, a>>)) = <<b, a>>
         /\ ScanIds(GetVerticesByIds(st, <<a, b>>)) = <<a, b>>

\* the latest step was the terminator op on the vertex traversal of ids,
\* taken as PValue
VertTerminated(op, ids) ==
  /\ last.op = op /\ last.end = "PValue" /\ last.code = TraversalV(ids)

\* C26: g.v(()).to_list(txn) returns every vertex the transaction sees, once,
\* as PValue::Vertex, in ascending id order; g.v(id).to_list(txn) returns the
\* one vertex stored under id, or the empty list when id is no key of
\* vertices:v1, as for the nil id; and a to_list over a v or e traversal
\* leaves the committed state, every transaction and the generators as they
\* were.
C26_TraversalReads ==
  /\ [](VertTerminated("to_list", IdsFromUnit) =>
          /\ last.ret.ok
          /\ FullScan(last.ret.val, wtxns[last.s].view.vertex_db, "Vertex",
                      StoredVertices(wtxns[last.s].view)))
  /\ [](\A i \in SourceIds :
          VertTerminated("to_list", IdsFromId(i)) =>
            /\ last.ret.ok
            /\ last.ret.val =
                 (IF IdBytesEncode(i) \in DOMAIN wtxns[last.s].view.vertex_db
                  THEN << PVertex(VertexGet(wtxns[last.s].view, i)) >> ELSE << >>)
            /\ i = IdNil("Vertex") => last.ret.val = << >>)
  /\ [][last'.op = "to_list" =>
          /\ db' = db /\ wtxns' = wtxns /\ rtxns' = rtxns
          /\ previous' = previous /\ issued' = issued]_vars

\* g.v(id).to_list has returned the one vertex of id out of two the
\* transaction sees
C26_Witness ==
  /\ \E i \in IssuedIds("Vertex") :
       /\ VertTerminated("to_list", IdsFromId(i))
       /\ Len(last.ret.val) = 1 /\ last.ret.val[1].val.id = i
  /\ VertexCount(wtxns[last.s].view) = [panic |-> FALSE, n |-> 2]

\* C27: v(ids), e(ids) and addV(label) return a traversal whose bytecode has
\* no source and exactly one step, a Vert, an Edge or an AddV; the call
\* leaves the committed state, every transaction, the generators and the
\* clock reading as they were.
C27_ConstructionIsPure ==
  /\ [](last.op = "traversal" =>
          /\ last.code.sources = << >>
          /\ Len(Steps(last.code)) = 1
          /\ Steps(last.code)[1].tag \in {"Vert", "Edge", "AddV"})
  /\ [][last'.op = "traversal" =>
          /\ db' = db /\ wtxns' = wtxns /\ rtxns' = rtxns
          /\ previous' = previous /\ issued' = issued /\ now' = now]_vars

\* addV has been called while a write transaction holding a vertex is open
C27_Witness ==
  /\ last.op = "traversal" /\ last.code = TraversalAddV(<<116>>)
  /\ \E s \in OpenWriters : wtxns[s].view.vertex_db # EmptyDb /\ db.vertex_db = EmptyDb

C29_ToListErrByValue ==
  last.op = "to_list" =>
    /\ last.ret # Panic
    /\ (\E i \in 1..Len(ExecuteRead(wtxns[last.s].view, Head(Steps(last.code)))) :
          ~FromPValue(last.end,
                      ExecuteRead(wtxns[last.s].view, Head(Steps(last.code)))[i]).ok)
         => last.ret = Err("InvalidPValue")

\* the values from_pvalue is given: the none value, a boolean, and the
\* vertices and edges of the store as PValues
SomePValues ==
  PValues \cup { PVertex(x) : x \in StoredVertices(db) }
          \cup { PEdge(x) : x \in StoredEdges(db) }

\* C30: to_pvalue followed by from_pvalue gives back Ok of the value, for
\* vertices, edges and PValues; Vertex::from_pvalue of a PValue that is no
\* Vertex, and Edge::from_pvalue of one that is no Edge, return InvalidPValue.
C30_PValueProjection ==
  /\ \A x \in StoredVertices(db) \cup VertexArgs :
       FromPValue("Vertex", ToPValue("Vertex", x)) = Ok(x)
  /\ \A x \in StoredEdges(db) \cup EdgeArgs :
       FromPValue("Edge", ToPValue("Edge", x)) = Ok(x)
  /\ \A pv \in SomePValues :
       /\ FromPValue("PValue", ToPValue("PValue", pv)) = Ok(pv)
       /\ pv.tag # "Vertex" => FromPValue("Vertex", pv) = Err("InvalidPValue")
       /\ pv.tag # "Edge" => FromPValue("Edge", pv) = Err("InvalidPValue")

\* a vertex and an edge are stored: the edge is no Vertex and the vertex no
\* Edge
C30_Witness ==
  \E x \in StoredVertices(db), y \in StoredEdges(db) :
    /\ FromPValue("Vertex", PEdge(y)) = Err("InvalidPValue")
    /\ FromPValue("Edge", PVertex(x)) = Err("InvalidPValue")
    /\ FromPValue("Edge", ToPValue("Edge", y)) = Ok(y)

RECURSIVE Pow256(_)
Pow256(n) == IF n = 0 THEN 1 ELSE 256 * Pow256(n - 1)

\* ULIDs of n bytes around every byte boundary: nil, the greatest, and the
\* values next to each power of 256
EdgeUlids(n) ==
  {0, 1, Pow256(n) - 1}
    \cup UNION { { Pow256(k) - 1, Pow256(k), Pow256(k) + 1, 2 * Pow256(k) } : k \in 1..(n - 1) }

\* the ids of every kind over them
EdgeIds(n) == { Id(t, u) : t \in {"Vertex", "Edge", "Parameter"}, u \in EdgeUlids(n) }

\* slices of a wrong length: the proper prefixes of a key and the key with a
\* byte more
WrongLength(key) ==
  { SubSeq(key, 1, k) : k \in 0..(Len(key) - 1) } \cup { key \o <<0>> }

\* C31: for every Id of every kind, nil and greatest ULID included,
\* bytes_decode(bytes_encode(id)) is the id; the encoding is the kind tag and
\* the bytes of the ULID, most significant first, one byte and the ULID's
\* width long; for two ids of one kind the memcmp order of the encodings is
\* the numeric order of the ULIDs; a slice of any other length decodes to
\* None.  Checked for ULIDs of 1 to MaxUlidBytes bytes and for every key of
\* vertices:v1 and edges:v1.
C31_IdCodec ==
  /\ \A n \in 1..MaxUlidBytes : \A a \in EdgeIds(n) :
       /\ IdKeyDecode(IdKeyEncode(a, n), n) = a
       /\ Len(IdKeyEncode(a, n)) = n + 1
       /\ IdKeyEncode(a, n)[1] = TypeTag(a.kind)
       /\ \A i \in 1..n :
            IdKeyEncode(a, n)[i + 1] = (a.ulid \div Pow256(n - i)) % 256
       /\ \A b \in EdgeIds(n) :
            a.kind = b.kind =>
              (BytesLess(IdKeyEncode(a, n), IdKeyEncode(b, n)) <=> a.ulid < b.ulid)
       /\ \A w \in WrongLength(IdKeyEncode(a, n)) : IdKeyDecode(w, n) = None
  /\ \A st \in Views : \A key \in DOMAIN st.vertex_db \cup DOMAIN st.edge_db :
       /\ IdBytesDecode(key) \in IssuedIds("Vertex") \cup IssuedIds("Edge")
       /\ IdBytesEncode(IdBytesDecode(key)) = key
       /\ \A w \in WrongLength(key) : IdBytesDecode(w) = None

\* a transaction holds a vertex and an edge under keys that decode to the
\* ids the puts returned
C31_Witness ==
  \E st \in Views :
    /\ \E i \in IssuedIds("Vertex") : IdBytesEncode(i) \in DOMAIN st.vertex_db
    /\ \E i \in IssuedIds("Edge") :
         /\ IdBytesEncode(i) \in DOMAIN st.edge_db
         /\ IdBytesDecode(IdBytesEncode(i)) = i
    /\ IdKeyDecode(IdKeyEncode(IdMax("Edge"), MaxUlidBytes), MaxUlidBytes) = IdMax("Edge")

\* HexOrder, ORDERS and HexOrder::to_db of graph/edge.rs: the postcard tuple
\* of the permutation's tag and the three ids in its order
ORDERS == << "TFE", "FTE", "ETF", "EFT", "TEF", "FET" >>
HexTag(order) == (CHOOSE i \in 1..Len(ORDERS) : ORDERS[i] = order) - 1
HexOrderToDb(order, id, to, from) ==
  << HexTag(order) >> \o
    CASE order = "TFE" -> SerdeId(to) \o SerdeId(from) \o SerdeId(id)
      [] order = "FTE" -> SerdeId(from) \o SerdeId(to) \o SerdeId(id)
      [] order = "ETF" -> SerdeId(id) \o SerdeId(to) \o SerdeId(from)
      [] order = "EFT" -> SerdeId(id) \o SerdeId(from) \o SerdeId(to)
      [] order = "TEF" -> SerdeId(to) \o SerdeId(id) \o SerdeId(from)
      [] order = "FET" -> SerdeId(from) \o SerdeId(id) \o SerdeId(to)

\* the hexastore keys of one edge
HexKeys(e) == { HexOrderToDb(ORDERS[i], e.id, e.to, e.from) : i \in 1..Len(ORDERS) }

\* The hexastore of a store.  Graph::new creates the six databases of the
\* store record and no other, and put_edge ends on "TODO: Add Hexstore
\* stuff": nothing the program runs calls HexOrder::to_db, so the hexastore
\* has no entries in any store.
HexstoreDb(st) == EmptyDb

\* C32: for each edge of edges:v1 the hexastore holds its six permutation
\* keys, and the hexastore holds no key that the edges of edges:v1 do not
\* give.
C32_HexastoreMaintained ==
  \A st \in Views :
    /\ \A e \in StoredEdges(st) : HexKeys(e) \subseteq DOMAIN HexstoreDb(st)
    /\ DOMAIN HexstoreDb(st) \subseteq UNION { HexKeys(e) : e \in StoredEdges(st) }

\* a step that is neither From nor To
IsOtherStep(i) == i.tag \notin {"From", "To"}
\* the id of the one step of steps with the tag
TaggedId(steps, tag) == steps[CHOOSE i \in 1..Len(steps) : steps[i].tag = tag].id
\* the terminator has run on the Bytecode the traversal held and has left
\* the record of one of ops
Executed(ops) == last.op = "traversal" /\ last'.op \in ops
\* the view of the write transaction the terminator ran in, before and after
ViewBefore == wtxns[last'.s].view
ViewAfter == wtxns'[last'.s].view
\* the head of that Bytecode has the tag
HeadIs(tags) == Steps(last.code) # << >> /\ Head(Steps(last.code)).tag \in tags
\* the steps behind the head hold the tag
TailHas(tag) == \E i \in 2..Len(Steps(last.code)) : Steps(last.code)[i].tag = tag

\* C33: when the executor runs a Bytecode whose head is AddE(label) and
\* whose other steps hold a From(f) and a To(t), at any positions, the
\* working step list after pop_to_from is the other steps without the From
\* and the To, in their order, and one edge with to = t, from = f and the
\* label is stored under a fresh id and returned.
C33_AddEConsumes ==
  [][ (Executed({"put_edge", "AddE"}) /\ HeadIs({"AddE"}) /\ TailHas("From") /\ TailHas("To")) =>
        /\ PopToFromSteps(Tail(Steps(last.code)))
             = SelectSeq(Tail(Steps(last.code)), IsOtherStep)
        /\ last'.op = "put_edge"
        /\ last'.ok =>
             /\ last'.ret.to = TaggedId(Steps(last.code), "To")
             /\ last'.ret.from = TaggedId(Steps(last.code), "From")
             /\ last'.ret.label = Head(Steps(last.code)).label
             /\ last'.ret.id \notin IssuedIds("Edge")
             /\ \E s \in OpenWriters :
                  /\ DOMAIN wtxns'[s].view.edge_db
                       = DOMAIN wtxns[s].view.edge_db \cup {IdBytesEncode(last'.ret.id)}
                  /\ EdgeDecode(wtxns'[s].view.edge_db[IdBytesEncode(last'.ret.id)]) = last'.ret
    ]_vars

\* C34: when the executor runs a Bytecode whose head is AddE and whose other
\* steps hold no To, the call returns BadRequest("Missing to"), whether a
\* From is there or not; with a To and no From it returns
\* BadRequest("Missing from"); no id is handed out, no edge is written, and
\* the committed state and the transaction's view of all six databases are
\* what they were.
C34_AddEMissingEndpoint ==
  [][ (Executed({"put_edge", "AddE"}) /\ HeadIs({"AddE"})
         /\ ~(TailHas("From") /\ TailHas("To"))) =>
        /\ last'.op = "AddE" /\ ~last'.ok /\ last'.ret = "BadRequest"
        /\ last'.err = (IF TailHas("To") THEN "Missing from" ELSE "Missing to")
        /\ UNCHANGED << db, wtxns, rtxns, issued, previous >>
    ]_vars

\* AddE without a To has been refused in a transaction that holds vertices
C34_Witness ==
  /\ last.op = "AddE" /\ last.err = "Missing to"
  /\ \E s \in OpenWriters : wtxns[s].view.vertex_db # EmptyDb
  /\ issued # << >>

\* C35: when the executor runs a Bytecode whose head is a Property, a From
\* or a To, the call returns an error value: it does not panic, it does not
\* return an empty stream, and the store, the transactions and the ids
\* handed out are what they were.
C35_OtherHeadFailsCleanly ==
  [][ (Executed({"to_list", "next"}) /\ HeadIs({"Property", "From", "To"})) =>
        /\ last'.ret # Panic
        /\ ~last'.ret.ok
        /\ UNCHANGED << db, wtxns, rtxns, issued, previous >>
    ]_vars

\* C36: every terminator call on a Bytecode whose head is AddV(label) that
\* returns Ok hands out one id that was not handed out before, adds to
\* vertices:v1 one record under that id, with the label and no parameters,
\* and to vertices_idx:v1 the entry of the label and the id, changes nothing
\* else, and returns that vertex; the ids handed out are all different, so k
\* calls on the same Bytecode add k vertices.
C36_AddVPutsOneVertex ==
  /\ [](\A i, j \in 1..Len(issued) : issued[i] = issued[j] => i = j)
  /\ [][ (Executed({"put_vertex"}) /\ HeadIs({"AddV"}) /\ last'.ok) =>
           /\ Len(issued') = Len(issued) + 1
           /\ SubSeq(issued', 1, Len(issued)) = issued
           /\ last'.ret = [id |-> issued'[Len(issued')],
                           label |-> Head(Steps(last.code)).label,
                           parameters |-> EmptyMap]
           /\ last'.ret.id.kind = "Vertex"
           /\ IdBytesEncode(last'.ret.id) \notin DOMAIN ViewBefore.vertex_db
           /\ DOMAIN ViewAfter.vertex_db
                = DOMAIN ViewBefore.vertex_db \cup {IdBytesEncode(last'.ret.id)}
           /\ \A k \in DOMAIN ViewBefore.vertex_db :
                ViewAfter.vertex_db[k] = ViewBefore.vertex_db[k]
           /\ VertexDecode(ViewAfter.vertex_db[IdBytesEncode(last'.ret.id)]) = last'.ret
           /\ DOMAIN ViewAfter.vertex_idx_db
                = DOMAIN ViewBefore.vertex_idx_db
                    \cup {LabelIdEncode(last'.ret.label, last'.ret.id)}
           /\ ViewAfter.vertex_idx_db[LabelIdEncode(last'.ret.label, last'.ret.id)]
                = IdBytesEncode(last'.ret.id)
           /\ \A k \in DOMAIN ViewBefore.vertex_idx_db :
                ViewAfter.vertex_idx_db[k] = ViewBefore.vertex_idx_db[k]
           /\ ViewAfter.edge_db = ViewBefore.edge_db
           /\ ViewAfter.edge_idx_db = ViewBefore.edge_idx_db
           /\ ViewAfter.parameters_db = ViewBefore.parameters_db
           /\ ViewAfter.parameters_idx_db = ViewBefore.parameters_idx_db
           /\ db' = db
     ]_vars

\* the third AddV in a row has returned its vertex, and the transaction holds
\* three vertices
C36_Witness ==
  /\ last.op = "put_vertex" /\ last.ok /\ last.arg = VertexNew(<<116>>)
  /\ Len(issued) = 3
  /\ \E s \in OpenWriters : Cardinality(DOMAIN wtxns[s].view.vertex_db) = 3

\* the heads that the executor runs without looking at the tail
LoneHeads == { hd \in ExecHeads : hd.tag \in {"Vert", "Edge", "AddV"} }

\* C37: when the executor runs a Bytecode made of a head Vert, Edge or AddV
\* and any tail, the value returned and the change to the store, the
\* generator and the ids handed out are those of running the head alone: a
\* read head returns what it reads in the transaction's view and changes
\* nothing, AddV does what it does without a tail, and its vertex has no
\* parameters whatever Property steps follow; the Bytecode the traversal
\* holds is the same afterwards.  A Bytecode without steps gives the empty
\* list (no first element for next) and changes nothing.
C37_OnlyHeadExecuted ==
  [][ /\ \A hd \in LoneHeads, tl \in ExecTails :
           (/\ last.op = "traversal"
            /\ last.code = BytecodeOf(<< hd >> \o tl)
            /\ last'.op \in {"to_list", "next", "put_vertex"}) =>
             IF hd.tag = "AddV"
             THEN /\ last'.op = "put_vertex"
                  /\ ExecuteWrite(last'.s, 1, << hd >>, now, 0)
                  /\ last'.ok => last'.ret.parameters = EmptyMap
             ELSE /\ last'.code = last.code
                  /\ last'.ret =
                       (IF last'.op = "to_list"
                        THEN Collect(ExecuteRead(ViewBefore, hd), "PValue")
                        ELSE NextOf(ExecuteRead(ViewBefore, hd), "PValue"))
                  /\ UNCHANGED << db, wtxns, rtxns, issued, previous >>
      /\ (/\ last.op = "traversal"
          /\ last.code = BytecodeDefault
          /\ last'.op \in {"to_list", "next", "put_vertex", "put_edge", "AddE"}) =>
             /\ last'.code = last.code
             /\ last'.ret = (IF last'.op = "to_list" THEN Collect(<< >>, "PValue")
                             ELSE Err("EmptyTraversal"))
             /\ UNCHANGED << db, wtxns, rtxns, issued, previous >>
    ]_vars

\* to_list has run on a Bytecode with a Vert head and a tail of three steps
\* and has returned the two vertices of the transaction's view
C37_Witness ==
  /\ last.op = "to_list"
  /\ Len(last.code.steps) = 4 /\ last.code.steps[1].tag = "Vert"
  /\ last.ret.ok /\ Len(last.ret.val) = 2

\* the store a put has left: the view of its transaction, the committed
\* state once the transaction is committed
PutView == IF last.committed THEN db ELSE wtxns[last.s].view

\* C38: after a put_vertex of an id whose binding (id, k) -> x is in
\* parameters:v1, with parameters that do not hold k, parameters:v1 still
\* maps (id, k) to x and parameters_idx:v1 still maps (k, id) to id, and the
\* record of vertices:v1 has no k.
C38_StaleParametersSurvive ==
  (last.op = "put_vertex" /\ last.ok /\ last.arg.id # None) =>
    \A k \in PKeys :
      (/\ IdParamEncode(last.arg.id, k) \in DOMAIN last.before.parameters_db
       /\ k \notin DOMAIN last.arg.parameters) =>
        /\ IdParamEncode(last.arg.id, k) \in DOMAIN PutView.parameters_db
        /\ PutView.parameters_db[IdParamEncode(last.arg.id, k)]
             = last.before.parameters_db[IdParamEncode(last.arg.id, k)]
        /\ ParamIdEncode(k, last.arg.id) \in DOMAIN PutView.parameters_idx_db
        /\ PutView.parameters_idx_db[ParamIdEncode(k, last.arg.id)]
             = IdBytesEncode(last.arg.id)
        /\ k \notin DOMAIN VertexGet(PutView, last.arg.id).parameters

\* a vertex stored with a parameter has been put again without it
C38_Witness ==
  /\ last.op = "put_vertex" /\ last.ok /\ last.arg.id # None
  /\ last.arg.parameters = EmptyMap
  /\ \E k \in PKeys :
       /\ IdParamEncode(last.arg.id, k) \in DOMAIN last.before.parameters_db
       /\ VertexGet(last.before, last.arg.id) # None
       /\ k \in DOMAIN VertexGet(last.before, last.arg.id).parameters
       /\ IdParamEncode(last.arg.id, k) \in DOMAIN PutView.parameters_db

\* the vertices and edges of the primary stores of st
StoredRecords(st) == StoredVertices(st) \cup StoredEdges(st)

\* C39: in the committed state and in every transaction's view, for each
\* vertex or edge r of a primary store and each (k, pv) of r.parameters,
\* parameters:v1 maps (r.id, k) to exactly pv; and a put of a vertex or an
\* edge leaves every binding of every other id as it was.
C39_StoredParametersIndexed ==
  /\ \A st \in Views : \A r \in StoredRecords(st) : \A k \in DOMAIN r.parameters :
       /\ IdParamEncode(r.id, k) \in DOMAIN st.parameters_db
       /\ PValueDecode(st.parameters_db[IdParamEncode(r.id, k)]) = r.parameters[k]
  /\ (last.op \in {"put_vertex", "put_edge"} /\ last.ok) =>
       \A i \in 1..Len(issued), k \in PKeys :
         (/\ issued[i] # last.ret.id
          /\ IdParamEncode(issued[i], k) \in DOMAIN last.before.parameters_db) =>
           /\ IdParamEncode(issued[i], k) \in DOMAIN PutView.parameters_db
           /\ PutView.parameters_db[IdParamEncode(issued[i], k)]
                = last.before.parameters_db[IdParamEncode(issued[i], k)]

\* a vertex and an edge are stored with the same key bound to different
\* values, and the vertex has just been put over its own record
C39_Witness ==
  /\ last.op = "put_vertex" /\ last.ok /\ last.arg.id # None
  /\ \E v \in StoredVertices(PutView), e \in StoredEdges(PutView) :
       \E k \in PKeys :
         /\ v.id = last.ret.id
         /\ k \in DOMAIN v.parameters /\ k \in DOMAIN e.parameters
         /\ v.parameters[k] # e.parameters[k]

\* the keys of the label index that belong to the id
IdxKeysOf(id) == { LabelIdEncode(l, id) : l \in Labels }

\* put, on the databases rec and idx of its kind, has changed no entry of
\* another id: the other keys are the same and map to the same bytes
OthersKept(rec, idx, id) ==
  /\ DOMAIN PutView[rec] \ {IdBytesEncode(id)} = DOMAIN last.before[rec] \ {IdBytesEncode(id)}
  /\ \A key \in DOMAIN last.before[rec] \ {IdBytesEncode(id)} :
       PutView[rec][key] = last.before[rec][key]
  /\ DOMAIN PutView[idx] \ IdxKeysOf(id) = DOMAIN last.before[idx] \ IdxKeysOf(id)
  /\ \A key \in DOMAIN last.before[idx] \ IdxKeysOf(id) :
       PutView[idx][key] = last.before[idx][key]

\* C40: a successful put_vertex leaves edges:v1 and edges_idx:v1 as they
\* were and changes no record of vertices:v1 and no entry of vertices_idx:v1
\* but those of the id it writes; put_edge does the same with the roles of
\* the two kinds exchanged; the read operations get_vertex_by_id,
\* get_edge_by_id, vertices, edges, vertex_count and edge_count change
\* neither the committed state nor any transaction, nor the generator.
C40_FrameOfPuts ==
  /\ []((last.op = "put_vertex" /\ last.ok) =>
          /\ PutView.edge_db = last.before.edge_db
          /\ PutView.edge_idx_db = last.before.edge_idx_db
          /\ OthersKept("vertex_db", "vertex_idx_db", last.ret.id))
  /\ []((last.op = "put_edge" /\ last.ok) =>
          /\ PutView.vertex_db = last.before.vertex_db
          /\ PutView.vertex_idx_db = last.before.vertex_idx_db
          /\ OthersKept("edge_db", "edge_idx_db", last.ret.id))
  /\ [][ last'.op \in ReadOps => UNCHANGED << db, wtxns, rtxns, issued, previous >> ]_vars

\* a stored vertex has been put again under another label while another
\* vertex and an edge are stored
C40_Witness ==
  /\ last.op = "put_vertex" /\ last.ok /\ last.arg.id # None
  /\ VertexGet(last.before, last.arg.id) # None
  /\ VertexGet(last.before, last.arg.id).label # last.arg.label
  /\ Cardinality(DOMAIN last.before.vertex_db) >= 2

====
